---------------------------- MODULE Spec2Model ----------------------------
(***************************************************************************)
(* Model of the DBRTS transfer engine (kadirbelkuyu/DBRTS).                *)
(*                                                                         *)
(*   internal/transfer/service.go   NewService, Service.Execute            *)
(*   postgres engine                postgresEngine.Execute, connect,       *)
(*     (tests/basic_test.go:35-183) cleanup, transferSchema, transferData  *)
(*   internal/schema/creator.go     Creator.CreateTables and its passes    *)
(*   internal/transfer/worker.go    WorkerPool, DataTransferJob            *)
(*   internal/transfer/mongo_engine.go  mongoEngine.Execute, connect,      *)
(*                                  transfer, cloneCollection, cloneIndexes*)
(*                                                                         *)
(* Spec is one run of a transfer, relational or document-store, from       *)
(* NewService to the return of Execute.  The databases are the             *)
(* environment: every call into them (open, query, begin, exec, commit,    *)
(* list, drop, find, insert) may succeed or fail, and every ExtractTables  *)
(* call reads whatever catalog the live source holds then.  SpecCreator,   *)
(* SpecPool and SpecIndexes run CreateTables, the worker pool with a       *)
(* cancellable context, and cloneIndexes over wider inputs.                *)
(***************************************************************************)
EXTENDS Integers, Sequences, FiniteSets, TLC

(* ------------------------------ bounds -------------------------------- *)

\* Most tables a source catalog holds.
MaxTables == 3
\* Most rows the tables of a source catalog hold between them.
MaxRows == 3
\* Largest --workers value.
MaxWorkers == 2
\* Largest --batch-size value.
MaxBatch == 2

(* ------------------------------ values -------------------------------- *)

\* config.Database.Type values: the two supported engines and one other.
DatabaseTypes == {"postgres", "mongo", "mysql"}

\* A Go error is a sequence of message parts, outermost wrapper first;
\* the nil error is the empty sequence.
Nil == <<>>

\* fmt.Errorf("<prefix>: %w", e)
Wrap(prefix, e) == <<prefix>> \o e

\* Index list of a table: its primary-key index and one secondary index.
IndexesOf(name) ==
    << [Name |-> <<"pk", name>>, IsPrimary |-> TRUE,  IsUnique |-> TRUE],
       [Name |-> <<"ix", name>>, IsPrimary |-> FALSE, IsUnique |-> FALSE] >>

\* Foreign keys of a table: every table but the last of the catalog refers
\* to the table that FOLLOWS it in the list (a forward reference).
ForeignKeysOf(name, n) ==
    IF name < n
    THEN << [Name |-> <<"fk", name>>, ReferencedTable |-> name + 1] >>
    ELSE << >>

\* schema.Column values (Name, DataType, IsNullable, DefaultValue, MaxLength):
\* an optional value (a nil pointer in Go) is the empty sequence.
Column(name, type, nullable, default, maxLength) ==
    [Name |-> name, DataType |-> type, IsNullable |-> nullable,
     DefaultValue |-> default, MaxLength |-> maxLength]

\* Column list of a table, in ordinal order.  Table 1 has a serial key and
\* a varchar with a length, table 2 a two-column key and a char with a
\* length, every other table no key and a nullable column.
ColumnsOf(name) ==
    CASE name = 1 -> << Column("id", "integer", FALSE, <<"nextval">>, << >>),
                        Column("title", "character varying", TRUE, << >>, <<5>>) >>
      [] name = 2 -> << Column("id", "integer", FALSE, << >>, << >>),
                        Column("code", "character", FALSE, << >>, <<2>>),
                        Column("qty", "integer", TRUE, <<"0">>, << >>) >>
      [] OTHER    -> << Column("note", "text", TRUE, << >>, << >>) >>

\* Primary-key column names of a table, in key order.
PrimaryKeysOf(name) ==
    CASE name = 1 -> <<"id">>
      [] name = 2 -> <<"code", "id">>
      [] OTHER    -> << >>

\* schema.Table, as far as creator.go and worker.go read it.
Table(name, rows, n) ==
    [Name        |-> name,
     RowCount    |-> rows,
     Columns     |-> ColumnsOf(name),
     PrimaryKeys |-> PrimaryKeysOf(name),
     Indexes     |-> IndexesOf(name),
     ForeignKeys |-> ForeignKeysOf(name, n)]

RECURSIVE SumTo(_, _)
SumTo(f, n) == IF n = 0 THEN 0 ELSE f[n] + SumTo(f, n - 1)

\* Every table list ExtractTables can return: 0..MaxTables tables, ordered
\* by name, holding at most MaxRows rows between them.
Catalogs ==
    UNION { { [i \in 1..n |-> Table(i, rc[i], n)] :
              rc \in { f \in [1..n -> 0..MaxRows] : SumTo(f, n) <= MaxRows } }
            : n \in 0..MaxTables }

TableNames == 1..MaxTables


(* ------------------------------- state -------------------------------- *)

VARIABLES
    sourceType,    \* sourceConfig.Database.Type
    targetType,    \* targetConfig.Database.Type
    options,       \* transfer.Options: SchemaOnly, DataOnly, ParallelWorkers, BatchSize
    pc,            \* where the calling goroutine is
    engine,        \* Service.engine: "nil", "postgres" or "mongo"
    err,           \* the error returned to the caller (Nil: none)
    sourceConn,    \* the engine's source connection: "nil", "open", "closed"
    targetConn,    \* the engine's target connection: "nil", "open", "closed"
    log,           \* what was logged at warning and error level
    schemaPhase,   \* transferSchema: "no", "running", "ok", "failed"
    dataPhase,     \* transferData:   "no", "running", "ok", "failed"
    tables,        \* the []Table a running phase works on
    txType,        \* dynamic type of the handle CreateTables passes to its passes
    tx,            \* CreateTables' transaction: "none", "open", "committed", "rolledback"
    stmts,         \* DDL statements issued through the transaction, in order
    commits,       \* number of successful tx.Commit() calls
    ctErr,         \* error CreateTables returned
    dbFailed,      \* some call into the target failed during CreateTables
    targetSchema,  \* DDL objects that persist in the target
    jobs,          \* len(wp.jobs): elements buffered in the pool's channel
    next,          \* index of transferData's range loop over tables
    wg,            \* sync.WaitGroup counter
    gpc,           \* per table, where its goroutine is
    offset,        \* per table, Execute's offset
    pages,         \* per table, transferBatch calls made
    reported,      \* per table, sum of ProgressBar.IncrementBy amounts
    committed,     \* per table, source rows (by position) committed to the target
    jobErr,        \* per table, the error SubmitJob returned
    ctxDone,       \* the ctx given to SubmitJob is done (cancelled)
    colls,         \* mongoEngine.transfer: the source collections listed
    ci,            \* index of transfer's range loop over collections
    mread,         \* documents of the current collection read from the cursor
    dropResult,    \* result of the latest targetCollection.Drop call
    mops,          \* calls made on the two MongoDB databases, in order
    request,       \* app.Service.Transfer's schemaOnly, dataOnly arguments
    appErr,        \* the error app.Service.Transfer returned (Nil: none)
    extracted,     \* the table lists ExtractTables returned, in call order
    plog,          \* per table, the database calls of its job, in order
    jobConn,       \* per table, the SourceConn and TargetConn of its job
    profPc,        \* profiles.Manager: the call that comes next
    profArgs,      \* the alias and config given to Manager.Save
    profDir,       \* the profile directory: file name -> file content
    profWrites,    \* the paths os.WriteFile was called with, in order
    profile,       \* what Manager.Save returned
    loaded,        \* what Manager.Load returned
    source,        \* per table, the rows the source table holds, in ORDER BY order
    changes        \* the changes made to source tables while jobs ran, in order

svcVars    == <<sourceType, targetType, options, pc, engine, err,
                sourceConn, targetConn, log, schemaPhase, dataPhase, tables>>
schemaVars == <<txType, tx, stmts, commits, ctErr, dbFailed, targetSchema>>
dataVars   == <<jobs, next, wg, gpc, offset, pages, reported, committed, jobErr>>
mongoVars  == <<colls, ci, mread, dropResult, mops>>
appVars    == <<request, appErr>>
histVars   == <<extracted, plog, jobConn>>
profVars   == <<profPc, profArgs, profDir, profWrites, profile, loaded>>
liveVars   == <<source, changes>>
vars       == <<svcVars, schemaVars, dataVars, mongoVars, ctxDone, appVars, histVars, profVars, liveVars>>

\* The *database.Connection values connect() stores in the engine: each
\* database.NewConnection call returns a handle of its own.
EngineConn == [SourceConn |-> <<"source", 0>>, TargetConn |-> <<"target", 0>>]

\* The connection fields of a job that was not constructed yet.
NoConn == [SourceConn |-> << >>, TargetConn |-> << >>]

OptionsSet ==
    [SchemaOnly : BOOLEAN, DataOnly : BOOLEAN,
     ParallelWorkers : 1..MaxWorkers, BatchSize : 1..MaxBatch]

\* config.Config, as far as the profile manager's callers compare it: the
\* database type and host, each a string (a sequence of characters and
\* words; the empty sequence is the empty string).
Config(type, host) == [Type |-> type, Host |-> host]

\* The zero values of profiles.Profile and of what Load returns.
NoProfile == [Name |-> << >>, Path |-> << >>, Type |-> << >>, err |-> Nil]
NoConfig == [cfg |-> Config(<< >>, << >>), err |-> Nil]

\* No profile manager call is made in a transfer.
ProfIdle ==
    /\ profPc = "none"
    /\ profArgs = [alias |-> << >>, cfg |-> Config(<< >>, << >>)]
    /\ profDir = << >>
    /\ profWrites = << >>
    /\ profile = NoProfile
    /\ loaded = NoConfig

\* State shared by every specification before anything ran.
Idle ==
    /\ err = Nil
    /\ sourceConn = "nil" /\ targetConn = "nil"
    /\ log = {}
    /\ schemaPhase = "no" /\ dataPhase = "no"
    /\ tx = "none" /\ stmts = << >> /\ commits = 0 /\ ctErr = Nil
    /\ dbFailed = FALSE /\ targetSchema = {}
    /\ jobs = 0 /\ next = 1 /\ wg = 0
    /\ gpc = [t \in TableNames |-> "idle"]
    /\ offset = [t \in TableNames |-> 0]
    /\ pages = [t \in TableNames |-> 0]
    /\ reported = [t \in TableNames |-> 0]
    /\ committed = [t \in TableNames |-> {}]
    /\ jobErr = [t \in TableNames |-> Nil]
    /\ colls = << >> /\ ci = 0 /\ mread = 0
    /\ dropResult = "none" /\ mops = << >>
    /\ appErr = Nil
    /\ extracted = << >>
    /\ plog = [t \in TableNames |-> << >>]
    /\ jobConn = [t \in TableNames |-> NoConn]
    /\ source = [t \in TableNames |-> << >>]
    /\ changes = << >>

\* database/sql: (*sql.DB).Begin returns a *sql.Tx.
BeginTxType == "sqlTx"

Init ==
    /\ sourceType \in DatabaseTypes
    /\ targetType \in DatabaseTypes
    /\ options \in OptionsSet
    /\ pc = "NewService"
    /\ engine = "nil"
    /\ tables = << >>
    /\ txType = BeginTxType
    /\ ctxDone = FALSE
    /\ request = << >>
    /\ ProfIdle
    /\ Idle

(* ------------------------- transfer.NewService ------------------------ *)

\* Mutant: the type comparison is dropped, the switch on sourceType decides.
NewServiceNoCheck(src, tgt) ==
    CASE src = "postgres" -> [engine |-> "postgres", err |-> Nil]
      [] src = "mongo"    -> [engine |-> "mongo", err |-> Nil]
      [] OTHER            -> [engine |-> "nil",
                              err |-> <<"unsupported database type", src>>]

\* NewService: the engine it constructs and the error it returns.
NewServiceResult(src, tgt) ==
    IF src # tgt
    THEN [engine |-> "nil",
          err |-> <<"cross-engine transfers are not supported between", src, tgt>>]
    ELSE CASE src = "postgres" -> [engine |-> "postgres", err |-> Nil]
           [] src = "mongo"    -> [engine |-> "mongo", err |-> Nil]
           [] OTHER            -> [engine |-> "nil",
                                   err |-> <<"unsupported database type", src>>]

NewService ==
    /\ pc = "NewService"
    /\ LET r == NewServiceResult(sourceType, targetType) IN
       /\ engine' = r.engine
       /\ err' = r.err
       /\ pc' = IF r.err = Nil THEN "Execute" ELSE "returned"
    /\ UNCHANGED <<sourceType, targetType, options, sourceConn, targetConn, log,
                   schemaPhase, dataPhase, tables, schemaVars, dataVars,
                   mongoVars, ctxDone, appVars, histVars, profVars, liveVars>>

(* ----------------------- postgresEngine.Execute ----------------------- *)

\* cleanup(): a connection the engine holds is closed.
Closed(conn) == IF conn = "open" THEN "closed" ELSE conn

\* Execute, after transferSchema or when it is skipped.
AfterSchema == IF ~options.SchemaOnly THEN "transferData" ELSE "finish"

\* Execute, after connect.
AfterConnect == IF ~options.DataOnly THEN "transferSchema" ELSE AfterSchema

\* Service.Execute -> postgresEngine.Execute -> connect(): source side.
ConnectSource ==
    /\ pc = "Execute" /\ engine = "postgres"
    /\ \E ok \in BOOLEAN :
         IF ok
         THEN /\ sourceConn' = "open"
              /\ pc' = "connectTarget"
              /\ err' = err
         ELSE /\ sourceConn' = sourceConn
              /\ pc' = "returned"
              /\ err' = <<"connection error", "source database connection">>
    /\ UNCHANGED <<sourceType, targetType, options, engine, targetConn, log,
                   schemaPhase, dataPhase, tables, schemaVars, dataVars,
                   mongoVars, ctxDone, appVars, histVars, profVars, liveVars>>

\* connect(): target side.  On failure Execute returns before the deferred
\* cleanup is registered.
ConnectTarget ==
    /\ pc = "connectTarget"
    /\ \E ok \in BOOLEAN :
         IF ok
         THEN /\ targetConn' = "open"
              /\ pc' = AfterConnect
              /\ err' = err
         ELSE /\ targetConn' = targetConn
              /\ pc' = "returned"
              /\ err' = <<"connection error", "target database connection">>
    /\ UNCHANGED <<sourceType, targetType, options, engine, sourceConn, log,
                   schemaPhase, dataPhase, tables, schemaVars, dataVars,
                   mongoVars, ctxDone, appVars, histVars, profVars, liveVars>>

\* Execute returns nil; the deferred cleanup closes both connections.
Finish ==
    /\ pc = "finish"
    /\ pc' = "returned"
    /\ err' = Nil
    /\ sourceConn' = Closed(sourceConn)
    /\ targetConn' = Closed(targetConn)
    /\ UNCHANGED <<sourceType, targetType, options, engine, log,
                   schemaPhase, dataPhase, tables, schemaVars, dataVars,
                   mongoVars, ctxDone, appVars, histVars, profVars, liveVars>>

(* --------------------- schema.Creator.CreateTables -------------------- *)

\* Result list of the Exec method of a transaction handle.  (*sql.Tx).Exec
\* returns (sql.Result, error); "execer" stands for a handle whose Exec
\* returns error alone.
ExecResults(handle) ==
    IF handle = "sqlTx" THEN <<"sql.Result", "error">> ELSE <<"error">>

\* Mutant: the assertion accepts any handle.
HasExecAny(handle) == TRUE

\* tx.(interface{ Exec(string, ...interface{}) error }): the assertion
\* holds only for a handle whose Exec has exactly that signature.
HasExec(handle) == ExecResults(handle) = <<"error">>

\* A DDL statement sent through the transaction; ok: Exec returned nil;
\* sql: the column list of a CREATE TABLE (empty for the other kinds).
Stmt(kind, table, name, ok) ==
    [kind |-> kind, table |-> table, name |-> name, ok |-> ok, sql |-> << >>]

\* Mutant: the length is appended for every column that has one.
TypeNameAlwaysSized(col) ==
    IF col.MaxLength # << >> THEN <<col.DataType>> \o col.MaxLength
    ELSE <<col.DataType>>

\* createTable: the type of a column definition, `%s` or `%s(%d)`; the
\* length is written for the two varchar spellings only.
TypeName(col) ==
    IF col.MaxLength # << >> /\ col.DataType \in {"character varying", "varchar"}
    THEN <<col.DataType>> \o col.MaxLength
    ELSE <<col.DataType>>

\* Mutant: NOT NULL is never written.
ColumnDefNullable(col) ==
    [name |-> col.Name, type |-> TypeName(col), notNull |-> FALSE,
     default |-> col.DefaultValue]

\* createTable: one column definition, `"name" type [NOT NULL] [DEFAULT d]`.
ColumnDef(col) ==
    [name |-> col.Name, type |-> TypeName(col), notNull |-> ~col.IsNullable,
     default |-> col.DefaultValue]

\* createTable: the column definitions in list order, followed by the
\* PRIMARY KEY clause when the table has key columns.
CreateSQL(table) ==
    [columnDefs |-> [i \in DOMAIN table.Columns |-> ColumnDef(table.Columns[i])],
     primaryKey |-> table.PrimaryKeys]

\* The table a CREATE TABLE leaves in the target, as extractColumns and
\* extractPrimaryKeys read it back: a key column is never nullable.
TargetTable(sql) ==
    [Columns |-> [i \in DOMAIN sql.columnDefs |->
                    LET d == sql.columnDefs[i] IN
                    [Name |-> d.name, DataType |-> d.type[1],
                     IsNullable |-> ~d.notNull /\
                                    ~\E k \in DOMAIN sql.primaryKey :
                                        sql.primaryKey[k] = d.name]],
     PrimaryKeys |-> { sql.primaryKey[k] : k \in DOMAIN sql.primaryKey }]

\* createTable: one CREATE TABLE IF NOT EXISTS (with the inline primary
\* key).  bad: the objects whose statement the target rejects.
createTable(handle, table, bad) ==
    IF HasExec(handle)
    THEN [stmts |-> << [Stmt("CREATE TABLE", table.Name, table.Name,
                             table.Name \notin bad)
                            EXCEPT !.sql = CreateSQL(table)] >>,
          warns |-> {},
          err   |-> IF table.Name \in bad THEN <<"exec">> ELSE Nil]
    ELSE [stmts |-> << >>, warns |-> {},
          err   |-> <<"transaction does not support Exec">>]

\* Mutant: the index loop does not skip primary-key indexes.
IndexSkippedNever(idx) == FALSE

\* createIndexes: `if idx.IsPrimary { continue }`.
IndexSkipped(idx) == idx.IsPrimary

RECURSIVE createIndexesFrom(_, _, _, _)
createIndexesFrom(handle, table, bad, i) ==
    IF i > Len(table.Indexes)
    THEN [stmts |-> << >>, warns |-> {}, err |-> Nil]
    ELSE LET idx  == table.Indexes[i]
             rest == createIndexesFrom(handle, table, bad, i + 1)
         IN  IF IndexSkipped(idx) \/ ~HasExec(handle)
             THEN rest
             ELSE [stmts |-> << Stmt("CREATE INDEX", table.Name, idx.Name,
                                     idx.Name \notin bad) >> \o rest.stmts,
                   warns |-> rest.warns \cup
                             (IF idx.Name \in bad
                              THEN { <<"warn", "Failed to create index", idx.Name>> }
                              ELSE {}),
                   err   |-> Nil]

\* createIndexes: one CREATE INDEX per non-primary index; a failed Exec is
\* logged as a warning; the function returns nil on every path.
createIndexes(handle, table, bad) == createIndexesFrom(handle, table, bad, 1)

\* Mutant: a failed foreign-key Exec is returned as an error.
ForeignKeyErrorFatal(failed) == IF failed THEN <<"exec">> ELSE Nil

\* createForeignKeys: what a failed Exec contributes to the returned error
\* (`if err := execer.Exec(fkSQL); err != nil { Warnf(...) }`, then
\* `return nil`).
ForeignKeyError(failed) == Nil

RECURSIVE createForeignKeysFrom(_, _, _, _)
createForeignKeysFrom(handle, table, bad, i) ==
    IF i > Len(table.ForeignKeys)
    THEN [stmts |-> << >>, warns |-> {}, err |-> Nil]
    ELSE LET fk   == table.ForeignKeys[i]
             e    == ForeignKeyError(fk.Name \in bad)
             rest == IF e = Nil
                     THEN createForeignKeysFrom(handle, table, bad, i + 1)
                     ELSE [stmts |-> << >>, warns |-> {}, err |-> e]
         IN  IF ~HasExec(handle)
             THEN createForeignKeysFrom(handle, table, bad, i + 1)
             ELSE [stmts |-> << Stmt("ADD FOREIGN KEY", table.Name, fk.Name,
                                     fk.Name \notin bad) >> \o rest.stmts,
                   warns |-> rest.warns \cup
                             (IF fk.Name \in bad
                              THEN { <<"warn", "Failed to create foreign key", fk.Name>> }
                              ELSE {}),
                   err   |-> rest.err]

\* createForeignKeys: one ALTER TABLE ... ADD CONSTRAINT per foreign key.
createForeignKeys(handle, table, bad) ==
    createForeignKeysFrom(handle, table, bad, 1)

\* The three helpers, by pass number.
PassStep(pass, handle, table, bad) ==
    CASE pass = 1 -> createTable(handle, table, bad)
      [] pass = 2 -> createIndexes(handle, table, bad)
      [] pass = 3 -> createForeignKeys(handle, table, bad)

\* The wrapper CreateTables puts around a helper's error.
PassError(pass, table, e) ==
    CASE pass = 1 -> Wrap("failed to create table", <<table.Name>> \o e)
      [] pass = 2 -> Wrap("failed to create indexes for", <<table.Name>> \o e)
      [] pass = 3 -> Wrap("failed to create foreign keys for", <<table.Name>> \o e)

\* Mutant: a helper's error does not end the loop.
PassStopsNever(e) == FALSE

\* `if err := c.createX(tx, table); err != nil { return ... }`
PassStops(e) == e # Nil

\* One `for _, table := range tables` loop of CreateTables from table i on:
\* the statements issued, the warnings logged, and the error returned.
RECURSIVE RunPass(_, _, _, _, _)
RunPass(pass, handle, tbls, bad, i) ==
    IF i > Len(tbls)
    THEN [stmts |-> << >>, warns |-> {}, err |-> Nil]
    ELSE LET r == PassStep(pass, handle, tbls[i], bad) IN
         IF PassStops(r.err)
         THEN [stmts |-> r.stmts, warns |-> r.warns,
               err |-> PassError(pass, tbls[i], r.err)]
         ELSE LET rest == RunPass(pass, handle, tbls, bad, i + 1) IN
              [stmts |-> r.stmts \o rest.stmts,
               warns |-> r.warns \cup rest.warns,
               err   |-> rest.err]

\* Names of the objects a pass may send a statement for.
PassObjects(pass, tbls) ==
    CASE pass = 1 -> { tbls[i].Name : i \in DOMAIN tbls }
      [] pass = 2 -> UNION { { tbls[i].Indexes[j].Name : j \in DOMAIN tbls[i].Indexes }
                             : i \in DOMAIN tbls }
      [] pass = 3 -> UNION { { tbls[i].ForeignKeys[j].Name : j \in DOMAIN tbls[i].ForeignKeys }
                             : i \in DOMAIN tbls }

\* Objects created by the statements that succeeded.
Applied(ss) == { <<ss[i].kind, ss[i].name>> : i \in { j \in DOMAIN ss : ss[j].ok } }

\* c.conn.DB.Begin(), and `defer tx.Rollback()`.
CTBegin ==
    /\ pc = "CreateTables"
    /\ \E ok \in BOOLEAN :
         IF ok
         THEN /\ tx' = "open"
              /\ pc' = "pass1"
              /\ UNCHANGED <<ctErr, dbFailed>>
         ELSE /\ tx' = tx
              /\ pc' = "ctReturn"
              /\ ctErr' = <<"failed to begin transaction">>
              /\ dbFailed' = TRUE
    /\ UNCHANGED <<sourceType, targetType, options, engine, err, sourceConn,
                   targetConn, log, schemaPhase, dataPhase, tables,
                   txType, stmts, commits, targetSchema, dataVars,
                   mongoVars, ctxDone, appVars, histVars, profVars, liveVars>>

\* One of the three loops over the whole table list.  An error returned by
\* a helper ends CreateTables; the deferred Rollback discards what the
\* transaction holds.
CTPass(pass) ==
    /\ pc = CASE pass = 1 -> "pass1" [] pass = 2 -> "pass2" [] pass = 3 -> "pass3"
    /\ \E bad \in SUBSET PassObjects(pass, tables) :
         LET r == RunPass(pass, txType, tables, bad, 1) IN
         /\ stmts' = stmts \o r.stmts
         /\ log' = log \cup r.warns
         /\ dbFailed' = (dbFailed \/ \E i \in DOMAIN r.stmts : ~r.stmts[i].ok)
         /\ IF r.err = Nil
            THEN /\ pc' = CASE pass = 1 -> "pass2" [] pass = 2 -> "pass3"
                            [] pass = 3 -> "commit"
                 /\ UNCHANGED <<tx, ctErr>>
            ELSE /\ pc' = "ctReturn"
                 /\ tx' = "rolledback"
                 /\ ctErr' = r.err
    /\ UNCHANGED <<sourceType, targetType, options, engine, err, sourceConn,
                   targetConn, schemaPhase, dataPhase, tables,
                   txType, commits, targetSchema, dataVars,
                   mongoVars, ctxDone, appVars, histVars, profVars, liveVars>>

\* tx.Commit(): on success what the transaction holds persists.
CTCommit ==
    /\ pc = "commit"
    /\ \E ok \in BOOLEAN :
         IF ok
         THEN /\ tx' = "committed"
              /\ commits' = commits + 1
              /\ targetSchema' = targetSchema \cup Applied(stmts)
              /\ UNCHANGED <<ctErr, dbFailed>>
         ELSE /\ tx' = "rolledback"
              /\ ctErr' = <<"failed to commit transaction">>
              /\ dbFailed' = TRUE
              /\ UNCHANGED <<commits, targetSchema>>
    /\ pc' = "ctReturn"
    /\ UNCHANGED <<sourceType, targetType, options, engine, err, sourceConn,
                   targetConn, log, schemaPhase, dataPhase, tables,
                   txType, stmts, dataVars,
                   mongoVars, ctxDone, appVars, histVars, profVars, liveVars>>

CreateTablesNext == CTBegin \/ CTPass(1) \/ CTPass(2) \/ CTPass(3) \/ CTCommit

\* CreateTables alone, called with every table list, through the *sql.Tx
\* that Begin returns and through a handle that has the asserted Exec.
InitCreator ==
    /\ sourceType = "postgres" /\ targetType = "postgres"
    /\ options \in { o \in OptionsSet : o.ParallelWorkers = 1 /\ o.BatchSize = 1
                                        /\ ~o.SchemaOnly /\ ~o.DataOnly }
    /\ pc = "CreateTables"
    /\ engine = "postgres"
    /\ tables \in Catalogs
    /\ txType \in {BeginTxType, "execer"}
    /\ ctxDone = FALSE
    /\ request = << >>
    /\ ProfIdle
    /\ Idle

SpecCreator == InitCreator /\ [][CreateTablesNext]_vars

(* ------------------- postgresEngine.transferSchema -------------------- *)

\* transferSchema: ExtractTables on the source, then CreateTables.
TransferSchema ==
    /\ pc = "transferSchema"
    /\ \E ok \in BOOLEAN, cat \in Catalogs :
         IF ok
         THEN /\ tables' = cat
              /\ extracted' = Append(extracted, cat)
              /\ schemaPhase' = "running"
              /\ pc' = "CreateTables"
              /\ UNCHANGED <<err, sourceConn, targetConn>>
         ELSE /\ tables' = tables
              /\ extracted' = extracted
              /\ schemaPhase' = "failed"
              /\ pc' = "returned"
              /\ err' = <<"schema transfer failed", "failed to extract tables">>
              /\ sourceConn' = Closed(sourceConn)
              /\ targetConn' = Closed(targetConn)
    /\ UNCHANGED <<sourceType, targetType, options, engine, log, dataPhase,
                   schemaVars, dataVars,
                   mongoVars, ctxDone, appVars, plog, jobConn, profVars, liveVars>>

\* Mutant: Execute goes on to the data phase whatever transferSchema returned.
SchemaErrorIgnored(e) == FALSE

\* Execute: `if err := e.transferSchema(); err != nil { return ... }`
SchemaErrorReturned(e) == e # Nil

\* CreateTables has returned into transferSchema, which returns into Execute.
TransferSchemaReturn ==
    /\ pc = "ctReturn"
    /\ IF SchemaErrorReturned(ctErr)
       THEN /\ schemaPhase' = "failed"
            /\ pc' = "returned"
            /\ err' = <<"schema transfer failed", "failed to create tables">> \o ctErr
            /\ sourceConn' = Closed(sourceConn)
            /\ targetConn' = Closed(targetConn)
       ELSE /\ schemaPhase' = IF ctErr = Nil THEN "ok" ELSE "failed"
            /\ pc' = AfterSchema
            /\ UNCHANGED <<err, sourceConn, targetConn>>
    /\ UNCHANGED <<sourceType, targetType, options, engine, log, dataPhase,
                   tables, schemaVars, dataVars,
                   mongoVars, ctxDone, appVars, histVars, profVars, liveVars>>

(* ---------------- WorkerPool and DataTransferJob (worker.go) ---------- *)

\* NewWorkerPool: make(chan Job, workers*2).
PoolCapacity(workers) == workers * 2

\* Mutant: the page size is not cut down to the rows that are left.
LimitUnclamped(off, batchSize, rowCount) == batchSize

\* Execute: limit := batchSize; if offset+limit > RowCount { limit = RowCount - offset }
Limit(off, batchSize, rowCount) ==
    IF off + batchSize > rowCount THEN rowCount - off ELSE batchSize

\* The rows a source table holds when its row count is taken: row p is
\* the p-th in ORDER BY order.
SourceRows(table) == [p \in 1..table.RowCount |-> p]

\* The source tables of a table list.
SourceOf(tbls) ==
    [t \in TableNames |-> IF t \in DOMAIN tbls THEN SourceRows(tbls[t]) ELSE << >>]

\* The rows of a page when OFFSET does not skip the row under the cursor.
QueryRowsFromCursor(src, off, limit) ==
    { src[p] : p \in { q \in DOMAIN src : q >= off /\ q <= off + limit } }

\* buildSelectQuery against the rows src the source table holds when the
\* query runs: the rows OFFSET/LIMIT selects from them in ORDER BY order.
QueryRows(src, off, limit) ==
    { src[p] : p \in { q \in DOMAIN src : q > off /\ q <= off + limit } }

\* A call a job makes on the source or the target database.
PageCall(op, off, limit, ok) ==
    [op |-> op, offset |-> off, limit |-> limit, ok |-> ok, rows |-> {}]

\* transferBatch: the calls of one page in the order the code makes them:
\* the source query (OFFSET off LIMIT limit), Begin on the target, the
\* inserts, Commit, and the deferred Rollback when Commit did not succeed.
PageCalls(rows, off, limit, outcome) ==
    << [PageCall("query", off, limit, outcome # "query")
          EXCEPT !.rows = IF outcome = "query" THEN {} ELSE rows] >> \o
    CASE outcome = "query"  -> << >>
      [] outcome = "insert" -> << PageCall("begin", off, limit, TRUE),
                                  PageCall("insert", off, limit, FALSE),
                                  PageCall("rollback", off, limit, TRUE) >>
      [] outcome = "commit" -> << PageCall("begin", off, limit, TRUE),
                                  PageCall("insert", off, limit, TRUE),
                                  PageCall("commit", off, limit, FALSE),
                                  PageCall("rollback", off, limit, TRUE) >>
      [] OTHER              -> << PageCall("begin", off, limit, TRUE),
                                  PageCall("insert", off, limit, TRUE),
                                  PageCall("commit", off, limit, TRUE) >>

\* Mutant: a page that failed keeps the rows it had inserted.
transferBatchNoRollback(src, off, limit, outcome) ==
    [rows  |-> IF outcome = "query" THEN {} ELSE QueryRows(src, off, limit),
     err   |-> IF outcome = "ok" THEN Nil ELSE <<outcome>>,
     calls |-> PageCalls(QueryRows(src, off, limit), off, limit, outcome)]

\* transferBatch: source query, one target transaction with one insert per
\* row, commit.  outcome names the call that fails ("ok": none); the
\* deferred Rollback discards the page unless Commit succeeded.
transferBatch(src, off, limit, outcome) ==
    [rows  |-> IF outcome = "ok" THEN QueryRows(src, off, limit) ELSE {},
     err   |-> IF outcome = "ok" THEN Nil ELSE <<outcome>>,
     calls |-> PageCalls(QueryRows(src, off, limit), off, limit, outcome)]

\* Mutant: the next page starts one row after the end of the last one.
NextOffsetSkips(off, limit) == off + limit + 1

\* Execute: offset += limit.
NextOffset(off, limit) == off + limit

PageOutcomes == {"ok", "query", "insert", "commit"}

\* The outcomes of a page with the given LIMIT: PostgreSQL rejects a query
\* with a negative LIMIT, so dt.SourceConn.DB.Query returns an error.
PageOutcomesFor(limit) == IF limit < 0 THEN {"query"} ELSE PageOutcomes

\* Most iterations of Execute's loop followed for one job; a loop that
\* advances runs at most MaxRows of them.
MaxPages == MaxRows + 1

\* transferData up to the fan-out: ExtractTables again, NewBar, NewWorkerPool.
TransferData ==
    /\ pc = "transferData"
    /\ \E ok \in BOOLEAN, cat \in Catalogs :
         IF ok
         THEN /\ tables' = cat
              /\ extracted' = Append(extracted, cat)
              /\ source' = SourceOf(cat)
              /\ dataPhase' = "running"
              /\ pc' = IF Len(cat) = 0 THEN "wait" ELSE "spawn"
              /\ UNCHANGED <<err, sourceConn, targetConn>>
         ELSE /\ tables' = tables
              /\ extracted' = extracted
              /\ source' = source
              /\ dataPhase' = "failed"
              /\ pc' = "returned"
              /\ err' = <<"data transfer failed", "failed to extract table metadata">>
              /\ sourceConn' = Closed(sourceConn)
              /\ targetConn' = Closed(targetConn)
    /\ jobs' = 0
    /\ next' = 1
    /\ UNCHANGED <<sourceType, targetType, options, engine, log, schemaPhase,
                   schemaVars, wg, gpc, offset, pages, reported, committed, jobErr,
                   mongoVars, ctxDone, appVars, plog, jobConn, profVars, changes>>

\* Mutant: every job is given a connection pair of its own.
NewJobOwnConn(t) == [SourceConn |-> <<"source", t>>, TargetConn |-> <<"target", t>>]

\* &DataTransferJob{SourceConn: e.sourceConn, TargetConn: e.targetConn, ...}:
\* the connection fields of the job made for table t.
NewJob(t) ==
    [SourceConn |-> EngineConn.SourceConn, TargetConn |-> EngineConn.TargetConn]

\* One iteration of `for _, table := range tables`: a table without rows is
\* skipped, any other gets wg.Add(1) and a goroutine of its own, which
\* constructs the table's job.
Spawn ==
    /\ pc = "spawn"
    /\ LET t == tables[next] IN
       IF t.RowCount = 0
       THEN UNCHANGED <<wg, gpc, jobConn>>
       ELSE /\ wg' = wg + 1
            /\ gpc' = [gpc EXCEPT ![t.Name] = "submit"]
            /\ jobConn' = [jobConn EXCEPT ![t.Name] = NewJob(t.Name)]
    /\ next' = next + 1
    /\ pc' = IF next + 1 > Len(tables) THEN "wait" ELSE "spawn"
    /\ UNCHANGED <<sourceType, targetType, options, engine, err, sourceConn,
                   targetConn, log, schemaPhase, dataPhase, tables, schemaVars,
                   jobs, offset, pages, reported, committed, jobErr,
                   mongoVars, ctxDone, appVars, extracted, plog, profVars, liveVars>>

\* SubmitJob's select: `wp.jobs <- job` is ready while the buffer has room;
\* nothing receives from wp.jobs, so an element stays for good.  ctx is
\* context.Background(), whose Done channel is never ready.  The send is
\* followed by job.Execute() in the submitting goroutine.
SubmitJob(t) ==
    /\ gpc[t] = "submit"
    /\ jobs < PoolCapacity(options.ParallelWorkers)
    /\ jobs' = jobs + 1
    /\ gpc' = [gpc EXCEPT ![t] = "exec"]
    /\ offset' = [offset EXCEPT ![t] = 0]
    /\ UNCHANGED <<svcVars, schemaVars, next, wg, pages, reported, committed, jobErr,
                   mongoVars, ctxDone, appVars, histVars, profVars, liveVars>>

\* One iteration of Execute's loop: a page.  On success the amount is
\* reported and the offset advanced; on failure Execute returns the error,
\* the goroutine logs it with the table's name and wg.Done() runs.
ExecutePage(t) ==
    /\ gpc[t] = "exec"
    /\ offset[t] < tables[t].RowCount
    /\ pages[t] < MaxPages
    /\ \E outcome \in PageOutcomesFor(Limit(offset[t], options.BatchSize,
                                             tables[t].RowCount)) :
         LET limit == Limit(offset[t], options.BatchSize, tables[t].RowCount)
             r     == transferBatch(source[t], offset[t], limit, outcome)
         IN  /\ pages' = [pages EXCEPT ![t] = @ + 1]
             /\ committed' = [committed EXCEPT ![t] = @ \cup r.rows]
             /\ plog' = [plog EXCEPT ![t] = @ \o r.calls]
             /\ IF r.err = Nil
                THEN /\ reported' = [reported EXCEPT ![t] = @ + limit]
                     /\ offset' = [offset EXCEPT ![t] = NextOffset(@, limit)]
                     /\ UNCHANGED <<jobErr, log, wg, gpc>>
                ELSE /\ jobErr' = [jobErr EXCEPT ![t] = <<"batch transfer failed">> \o r.err]
                     /\ log' = log \cup { <<"error", "Table transfer failed for",
                                            tables[t].Name, jobErr'[t]>> }
                     /\ wg' = wg - 1
                     /\ gpc' = [gpc EXCEPT ![t] = "done"]
                     /\ UNCHANGED <<reported, offset>>
    /\ UNCHANGED <<sourceType, targetType, options, pc, engine, err, sourceConn,
                   targetConn, schemaPhase, dataPhase, tables, schemaVars,
                   jobs, next,
                   mongoVars, ctxDone, appVars, extracted, jobConn, profVars, liveVars>>

\* Execute's loop condition is false: it returns nil and wg.Done() runs.
ExecuteReturn(t) ==
    /\ gpc[t] = "exec"
    /\ ~(offset[t] < tables[t].RowCount)
    /\ gpc' = [gpc EXCEPT ![t] = "done"]
    /\ wg' = wg - 1
    /\ UNCHANGED <<svcVars, schemaVars, jobs, next, offset, pages, reported,
                   committed, jobErr,
                   mongoVars, ctxDone, appVars, histVars, profVars, liveVars>>

\* Mutant: transferData returns an error when a job failed.
TransferDataJobErrorReturned(errs) ==
    IF \E t \in DOMAIN errs : errs[t] # Nil THEN <<"table transfer failed">> ELSE Nil

\* transferData after wg.Wait(): progressBar.Finish(), then `return nil`;
\* the jobs' errors were logged in their goroutines and are not collected.
TransferDataResult(errs) == Nil

\* wg.Wait() returns, transferData returns into Execute
\* (`if err := e.transferData(); err != nil { return ... }`).
Wait ==
    /\ pc = "wait"
    /\ wg = 0
    /\ LET e == TransferDataResult(jobErr) IN
       IF e = Nil
       THEN /\ dataPhase' = "ok"
            /\ pc' = "finish"
            /\ UNCHANGED <<err, sourceConn, targetConn>>
       ELSE /\ dataPhase' = "failed"
            /\ pc' = "returned"
            /\ err' = <<"data transfer failed">> \o e
            /\ sourceConn' = Closed(sourceConn)
            /\ targetConn' = Closed(targetConn)
    /\ UNCHANGED <<sourceType, targetType, options, engine, log, schemaPhase,
                   tables, schemaVars, dataVars,
                   mongoVars, ctxDone, appVars, histVars, profVars, liveVars>>

(* ------------- WorkerPool.SubmitJob with a cancellable ctx ------------ *)

\* SubmitJob's select takes `case <-ctx.Done(): return ctx.Err()`, which is
\* ready once ctx is done; the submitting goroutine logs the error and
\* wg.Done() runs.  When the send is ready too, select picks either case.
SubmitJobCancelled(t) ==
    /\ gpc[t] = "submit"
    /\ ctxDone
    /\ jobErr' = [jobErr EXCEPT ![t] = <<"context canceled">>]
    /\ log' = log \cup { <<"error", "Table transfer failed for",
                           tables[t].Name, jobErr'[t]>> }
    /\ wg' = wg - 1
    /\ gpc' = [gpc EXCEPT ![t] = "done"]
    /\ UNCHANGED <<sourceType, targetType, options, pc, engine, err, sourceConn,
                   targetConn, schemaPhase, dataPhase, tables, schemaVars,
                   jobs, next, offset, pages, reported, committed,
                   mongoVars, ctxDone, appVars, histVars, profVars, liveVars>>

\* The owner of ctx cancels it.
Cancel ==
    /\ ~ctxDone
    /\ ctxDone' = TRUE
    /\ UNCHANGED <<svcVars, schemaVars, dataVars, mongoVars, appVars, histVars, profVars, liveVars>>

\* The fan-out of a data-only transfer over every table list, with a pool
\* whose callers pass a ctx that is cancelled already or can be cancelled.
InitPoolWith(batchSizes) ==
    /\ sourceType = "postgres" /\ targetType = "postgres"
    /\ options \in { [o EXCEPT !.BatchSize = b] :
                       o \in { x \in OptionsSet : x.DataOnly /\ ~x.SchemaOnly },
                       b \in batchSizes }
    /\ engine = "postgres"
    /\ tables \in Catalogs
    /\ pc = IF Len(tables) = 0 THEN "wait" ELSE "spawn"
    /\ txType = BeginTxType
    /\ ctxDone \in BOOLEAN
    /\ err = Nil
    /\ sourceConn = "open" /\ targetConn = "open"
    /\ log = {}
    /\ schemaPhase = "no" /\ dataPhase = "running"
    /\ tx = "none" /\ stmts = << >> /\ commits = 0 /\ ctErr = Nil
    /\ dbFailed = FALSE /\ targetSchema = {}
    /\ jobs = 0 /\ next = 1 /\ wg = 0
    /\ gpc = [t \in TableNames |-> "idle"]
    /\ offset = [t \in TableNames |-> 0]
    /\ pages = [t \in TableNames |-> 0]
    /\ reported = [t \in TableNames |-> 0]
    /\ committed = [t \in TableNames |-> {}]
    /\ jobErr = [t \in TableNames |-> Nil]
    /\ colls = << >> /\ ci = 0 /\ mread = 0
    /\ dropResult = "none" /\ mops = << >>
    /\ request = << >> /\ appErr = Nil
    /\ extracted = << tables >>
    /\ plog = [t \in TableNames |-> << >>]
    /\ jobConn = [t \in TableNames |-> NoConn]
    /\ source = SourceOf(tables)
    /\ changes = << >>
    /\ ProfIdle

\* The fan-out of a data-only transfer with a batch size of 1..MaxBatch.
InitPool == InitPoolWith(1..MaxBatch)

PoolNext ==
    \/ Spawn
    \/ \E t \in TableNames : SubmitJob(t)
    \/ \E t \in TableNames : SubmitJobCancelled(t)
    \/ \E t \in TableNames : ExecutePage(t)
    \/ \E t \in TableNames : ExecuteReturn(t)
    \/ Wait
    \/ Cancel

SpecPool == InitPool /\ [][PoolNext]_vars

(* ------------- DataTransferJob over a source that changes ------------- *)

\* Most changes made to the source tables while the jobs run.
MaxChanges == 2

\* A job is between two pages: it ran one and its loop goes on.
BetweenPages(t) ==
    /\ gpc[t] = "exec"
    /\ pages[t] >= 1
    /\ offset[t] < tables[t].RowCount

\* The sequence str without its p-th element, and with x put in as p-th.
RemoveAt(str, p) == SubSeq(str, 1, p - 1) \o SubSeq(str, p + 1, Len(str))
InsertAt(str, p, x) == SubSeq(str, 1, p - 1) \o <<x>> \o SubSeq(str, p, Len(str))

\* Another client deletes the p-th row of a source table between two pages
\* of the table's job.
DeleteRow(t) ==
    /\ BetweenPages(t)
    /\ Len(changes) < MaxChanges
    /\ \E p \in DOMAIN source[t] :
         /\ source' = [source EXCEPT ![t] = RemoveAt(@, p)]
         /\ changes' = Append(changes, [kind |-> "delete", table |-> t,
                                        row |-> source[t][p], pos |-> p,
                                        cursor |-> offset[t]])
    /\ UNCHANGED <<svcVars, schemaVars, dataVars, mongoVars, ctxDone, appVars,
                   histVars, profVars>>

\* Another client inserts a row that sorts as the p-th into a source table
\* between two pages of the table's job.
InsertRow(t) ==
    /\ BetweenPages(t)
    /\ Len(changes) < MaxChanges
    /\ \E p \in 1..(Len(source[t]) + 1) :
         LET new == tables[t].RowCount + 1 +
                    Cardinality({ i \in DOMAIN changes :
                                    changes[i].table = t /\ changes[i].kind = "insert" })
         IN  /\ source' = [source EXCEPT ![t] = InsertAt(@, p, new)]
             /\ changes' = Append(changes, [kind |-> "insert", table |-> t,
                                            row |-> new, pos |-> p,
                                            cursor |-> offset[t]])
    /\ UNCHANGED <<svcVars, schemaVars, dataVars, mongoVars, ctxDone, appVars,
                   histVars, profVars>>

\* The job of a data-only transfer of one table that other clients change
\* while the job runs.
InitLive ==
    /\ InitPool
    /\ ~ctxDone
    /\ options.ParallelWorkers = 1
    /\ Len(tables) = 1

LiveNext ==
    \/ Spawn
    \/ \E t \in TableNames : SubmitJob(t)
    \/ \E t \in TableNames : ExecutePage(t)
    \/ \E t \in TableNames : ExecuteReturn(t)
    \/ Wait
    \/ \E t \in TableNames : DeleteRow(t)
    \/ \E t \in TableNames : InsertRow(t)

SpecLive == InitLive /\ [][LiveNext]_vars

(* ------------- DataTransferJob with any configured batch size --------- *)

\* Values of the --batch-size flag: any int is accepted and passed on
\* unchanged (main.go:92, 148).
BatchSizes == -1..MaxBatch

\* The job of a data-only transfer of one table, run with any batch size.
InitBatch ==
    /\ InitPoolWith(BatchSizes)
    /\ ~ctxDone
    /\ options.ParallelWorkers = 1
    /\ Len(tables) = 1

BatchNext ==
    \/ Spawn
    \/ \E t \in TableNames : SubmitJob(t)
    \/ \E t \in TableNames : ExecutePage(t)
    \/ \E t \in TableNames : ExecuteReturn(t)
    \/ Wait

SpecBatch == InitBatch /\ [][BatchNext]_vars

(* ------------------ mongoEngine (mongo_engine.go:16-262) -------------- *)

\* Name of the identity index MongoDB keeps on every collection.
IdentityIndex == <<"_id_">>

\* Name of the i-th other index of a collection.
IndexName(i) == <<"ix", i>>

\* An index document as Indexes().List returns it.  unique and sparse are
\* absent or false alike; expireAfterSeconds is absent (hasExpire FALSE)
\* or holds a number of seconds.
IndexDoc(name, key, unique, sparse, hasExpire, expire) ==
    [Name |-> name, Key |-> key, Unique |-> unique, Sparse |-> sparse,
     HasExpire |-> hasExpire, Expire |-> expire]

IdentityDoc == IndexDoc(IdentityIndex, <<"_id", 1>>, FALSE, FALSE, FALSE, 0)

\* Index list of a source collection: the identity index, for collection 1
\* a unique index, for collection 3 and up a sparse TTL index.
CollectionIndexes(name) ==
    CASE name = 1 -> << IdentityDoc,
                        IndexDoc(IndexName(1), <<"email", 1>>, TRUE, FALSE, FALSE, 0) >>
      [] name = 2 -> << IdentityDoc >>
      [] OTHER    -> << IdentityDoc,
                        IndexDoc(IndexName(name), <<"at", 1>>, FALSE, TRUE, TRUE, 1) >>

\* A source collection: its name, the number of its documents, its indexes.
Collection(name, docs) ==
    [Name |-> name, Docs |-> docs, Indexes |-> CollectionIndexes(name)]

\* Every collection list ListCollectionNames can return: 0..MaxTables
\* collections holding at most MaxRows documents between them.
MongoCatalogs ==
    UNION { { [i \in 1..n |-> Collection(i, dc[i])] :
              dc \in { f \in [1..n -> 0..MaxRows] : SumTo(f, n) <= MaxRows } }
            : n \in 0..MaxTables }

\* A call made on the source or target database.
MongoOp(op, coll, arg) == [op |-> op, coll |-> coll, arg |-> arg]

\* cursor.Decode(&indexDoc): a field the document lacks decodes to the zero
\* value of the struct field (Expire int32 `bson:"expireAfterSeconds,omitempty"`).
DecodeIndex(doc) ==
    [Name |-> doc.Name, Key |-> doc.Key, Unique |-> doc.Unique,
     Sparse |-> doc.Sparse, Expire |-> IF doc.HasExpire THEN doc.Expire ELSE 0]

\* Mutant: the expiry is copied whenever the source index has one.
IndexModelExpiryKept(doc) ==
    [Name |-> doc.Name, Key |-> doc.Key, Unique |-> doc.Unique,
     Sparse |-> doc.Sparse, HasExpire |-> doc.HasExpire, Expire |-> doc.Expire]

\* The mongo.IndexModel cloneIndexes builds from an index document:
\* SetName, Keys, and SetUnique / SetSparse / SetExpireAfterSeconds each
\* only when the decoded field is not its zero value.
IndexModel(doc) ==
    LET d == DecodeIndex(doc) IN
    [Name |-> d.Name, Key |-> d.Key, Unique |-> d.Unique, Sparse |-> d.Sparse,
     HasExpire |-> d.Expire # 0, Expire |-> d.Expire]

\* Mutant: the identity index is treated like any other.
IdentitySkippedNever(doc) == FALSE

\* cloneIndexes: `if indexDoc.Name == "_id_" { continue }`.
IdentitySkipped(doc) == doc.Name = IdentityIndex

\* cloneIndexes: the models collected from the index documents i, i+1, ...
RECURSIVE IndexModelsFrom(_, _)
IndexModelsFrom(docs, i) ==
    IF i > Len(docs) THEN << >>
    ELSE (IF IdentitySkipped(docs[i]) THEN << >> ELSE << IndexModel(docs[i]) >>)
         \o IndexModelsFrom(docs, i + 1)

CloneIndexesOutcomes == {"ok", "list", "decode", "cursor", "create"}

\* cloneIndexes on one collection: the calls it makes and the error it
\* returns.  outcome names the call that fails ("ok": none); CreateMany is
\* called only with at least one model.
cloneIndexes(coll, docs, outcome) ==
    LET models == IndexModelsFrom(docs, 1)
        list   == << MongoOp("listIndexes", coll, << >>) >>
    IN  CASE outcome = "list"   -> [ops |-> list, err |-> <<"failed to list indexes">>]
          [] outcome = "decode" -> [ops |-> list, err |-> <<"failed to decode index">>]
          [] outcome = "cursor" -> [ops |-> list, err |-> <<"error reading indexes">>]
          [] OTHER ->
               IF Len(models) = 0
               THEN [ops |-> list, err |-> Nil]
               ELSE [ops |-> list \o << MongoOp("createIndexes", coll, models) >>,
                     err |-> IF outcome = "create"
                             THEN <<"failed to create indexes">> ELSE Nil]

\* transfer: copyIndexes := !DataOnly, copyData := !SchemaOnly.
CopyIndexes == ~options.DataOnly
CopyData == ~options.SchemaOnly

\* Mutant: transfer never decides that there is nothing to do.
NothingToDoNever == FALSE

\* transfer: `if !copyIndexes && !copyData { Warn(...); return nil }`.
NothingToDo == ~CopyIndexes /\ ~CopyData

\* Mutant: the configured batch size is not used.
MongoBatchSizeFixed(batchSize) == 500

\* cloneCollection: `if batchSize <= 0 { batchSize = 500 }`.
MongoBatchSize(batchSize) == IF batchSize <= 0 THEN 500 ELSE batchSize

\* Mutant: namespace-not-found is an error like any other.
isNamespaceNotFoundNever(result) == FALSE

\* isNamespaceNotFound: the drop failed with command error code 26.
isNamespaceNotFound(result) == result = "notfound"

\* Execute returns e: the deferred cleanup disconnects both clients.
MongoReturn(e) ==
    /\ pc' = "returned"
    /\ err' = e
    /\ sourceConn' = Closed(sourceConn)
    /\ targetConn' = Closed(targetConn)

\* Mutant: Execute goes on after a failed connect.
MongoConnectErrorIgnored(side, outcome) == Nil

\* connect(): the error returned for the outcome of mongo.Connect and Ping.
MongoConnectError(side, outcome) ==
    CASE outcome = "ok"      -> Nil
      [] outcome = "connect" -> <<"failed to connect to", side, "MongoDB">>
      [] outcome = "ping"    -> <<"failed to ping", side, "MongoDB">>

ConnectOutcomes == {"ok", "connect", "ping"}

\* Service.Execute -> mongoEngine.Execute -> connect(): source side.
MongoConnectSource ==
    /\ pc = "Execute" /\ engine = "mongo"
    /\ \E outcome \in ConnectOutcomes :
         LET e == MongoConnectError("source", outcome) IN
         /\ sourceConn' = IF outcome = "ok" THEN "open" ELSE sourceConn
         /\ IF e = Nil
            THEN pc' = "mConnectTarget" /\ err' = err
            ELSE pc' = "returned" /\ err' = Wrap("failed to connect to MongoDB", e)
    /\ UNCHANGED <<sourceType, targetType, options, engine, targetConn, log,
                   schemaPhase, dataPhase, tables, schemaVars, dataVars,
                   mongoVars, ctxDone, appVars, histVars, profVars, liveVars>>

\* connect(): target side.  On failure Execute returns before the deferred
\* cleanup is registered.
MongoConnectTarget ==
    /\ pc = "mConnectTarget"
    /\ \E outcome \in ConnectOutcomes :
         LET e == MongoConnectError("target", outcome) IN
         /\ targetConn' = IF outcome = "ok" THEN "open" ELSE targetConn
         /\ IF e = Nil
            THEN pc' = "mTransfer" /\ err' = err
            ELSE pc' = "returned" /\ err' = Wrap("failed to connect to MongoDB", e)
    /\ UNCHANGED <<sourceType, targetType, options, engine, sourceConn, log,
                   schemaPhase, dataPhase, tables, schemaVars, dataVars,
                   mongoVars, ctxDone, appVars, histVars, profVars, liveVars>>

\* transfer() up to its loop: the database names, ListCollectionNames, the
\* two flags.  With both flags set it warns and returns nil.
MongoTransfer ==
    /\ pc = "mTransfer"
    /\ \E outcome \in {"ok", "names", "list"}, cat \in MongoCatalogs :
         IF outcome = "names"
         THEN /\ MongoReturn(<<"source and target database names are required for MongoDB transfer">>)
              /\ UNCHANGED <<log, colls, mops>>
         ELSE IF outcome = "list"
         THEN /\ mops' = Append(mops, MongoOp("listCollections", 0, << >>))
              /\ MongoReturn(<<"failed to list collections">>)
              /\ UNCHANGED <<log, colls>>
         ELSE /\ mops' = Append(mops, MongoOp("listCollections", 0, << >>))
              /\ colls' = cat
              /\ IF NothingToDo
                 THEN /\ log' = log \cup { <<"warn", "Both schema-only and data-only flags are set to skip operations; nothing to do.">> }
                      /\ MongoReturn(Nil)
                 ELSE /\ pc' = "mRange"
                      /\ UNCHANGED <<log, err, sourceConn, targetConn>>
    /\ ci' = 0
    /\ UNCHANGED <<sourceType, targetType, options, engine, schemaPhase,
                   dataPhase, tables, schemaVars, dataVars, mread, dropResult,
                   ctxDone, appVars, histVars, profVars, liveVars>>

\* `for _, collectionName := range collections`: the next collection, or
\* the end of the loop, where transfer and Execute return nil.
MongoRange ==
    /\ pc = "mRange"
    /\ IF ci < Len(colls)
       THEN /\ ci' = ci + 1
            /\ pc' = "mDrop"
            /\ UNCHANGED <<err, sourceConn, targetConn>>
       ELSE /\ ci' = ci
            /\ MongoReturn(Nil)
    /\ mread' = 0
    /\ UNCHANGED <<sourceType, targetType, options, engine, log, schemaPhase,
                   dataPhase, tables, schemaVars, dataVars, colls, dropResult,
                   mops, ctxDone, appVars, histVars, profVars, liveVars>>

\* Mutant: the indexes are cloned whatever the flags say.
AfterDropAlwaysIndexes == "mIndexes"

\* Where cloneCollection goes after the drop and after the indexes.
AfterDrop == IF CopyIndexes THEN "mIndexes" ELSE IF CopyData THEN "mFind" ELSE "mRange"
AfterIndexes == IF CopyData THEN "mFind" ELSE "mRange"

\* cloneCollection: targetCollection.Drop(ctx).
MongoDrop ==
    /\ pc = "mDrop"
    /\ \E result \in {"ok", "notfound", "error"} :
         /\ dropResult' = result
         /\ IF result # "ok" /\ ~isNamespaceNotFound(result)
            THEN MongoReturn(<<"failed to drop target collection", colls[ci].Name, result>>)
            ELSE /\ pc' = AfterDrop
                 /\ UNCHANGED <<err, sourceConn, targetConn>>
    /\ mops' = Append(mops, MongoOp("drop", colls[ci].Name, << >>))
    /\ UNCHANGED <<sourceType, targetType, options, engine, log, schemaPhase,
                   dataPhase, tables, schemaVars, dataVars, colls, ci, mread,
                   ctxDone, appVars, histVars, profVars, liveVars>>

\* cloneCollection: `if copyIndexes { cloneIndexes(...) }`.
MongoCloneIndexes ==
    /\ pc = "mIndexes"
    /\ \E outcome \in CloneIndexesOutcomes :
         LET r == cloneIndexes(colls[ci].Name, colls[ci].Indexes, outcome) IN
         /\ mops' = mops \o r.ops
         /\ IF r.err # Nil
            THEN MongoReturn(<<"failed to clone indexes for", colls[ci].Name>> \o r.err)
            ELSE /\ pc' = AfterIndexes
                 /\ UNCHANGED <<err, sourceConn, targetConn>>
    /\ UNCHANGED <<sourceType, targetType, options, engine, log, schemaPhase,
                   dataPhase, tables, schemaVars, dataVars, colls, ci, mread,
                   dropResult, ctxDone, appVars, histVars, profVars, liveVars>>

\* Mutant: an ordered bulk insert stops at the first document that fails.
insertBatchOrdered(coll, batch, failed) ==
    IF batch = {} THEN [ops |-> << >>, err |-> Nil]
    ELSE [ops |-> << MongoOp("insertMany", coll,
                            [docs |-> { d \in batch : \A f \in failed : d <= f },
                             inserted |-> { d \in batch : \A f \in failed : d < f }]) >>,
          err |-> IF failed = {} THEN Nil ELSE <<"bulk write exception">>]

\* insertBatch: nothing for an empty batch, else one InsertMany with
\* SetOrdered(false): every document of the batch is attempted, the ones in
\* failed are rejected, and the call returns an error if any was.
insertBatch(coll, batch, failed) ==
    IF batch = {} THEN [ops |-> << >>, err |-> Nil]
    ELSE [ops |-> << MongoOp("insertMany", coll,
                            [docs |-> batch, inserted |-> batch \ failed]) >>,
          err |-> IF failed = {} THEN Nil ELSE <<"bulk write exception">>]

\* cloneCollection: sourceCollection.Find(ctx, bson.D{}).
MongoFind ==
    /\ pc = "mFind"
    /\ \E ok \in BOOLEAN :
         IF ok
         THEN /\ pc' = "mBatch"
              /\ UNCHANGED <<err, sourceConn, targetConn>>
         ELSE MongoReturn(<<"failed to query collection", colls[ci].Name>>)
    /\ mops' = Append(mops, MongoOp("find", colls[ci].Name, << >>))
    /\ mread' = 0
    /\ UNCHANGED <<sourceType, targetType, options, engine, log, schemaPhase,
                   dataPhase, tables, schemaVars, dataVars, colls, ci,
                   dropResult, ctxDone, appVars, histVars, profVars, liveVars>>

\* Documents the cursor still holds for the current collection.
Unread == colls[ci].Docs - mread

\* Mutant: an error of insertBatch inside the loop is dropped.
BatchErrorIgnored(e) == FALSE

\* cloneCollection: `if err := e.insertBatch(...); err != nil { return ... }`.
BatchErrorReturned(e) == e # Nil

\* The cursor loop up to a full batch: batchSize documents are decoded and
\* appended, then inserted.  A Decode error returns at once.
MongoBatch ==
    /\ pc = "mBatch"
    /\ Unread >= MongoBatchSize(options.BatchSize)
    /\ LET batch == (mread + 1)..(mread + MongoBatchSize(options.BatchSize)) IN
       \E decoded \in BOOLEAN, failed \in SUBSET batch :
         IF ~decoded
         THEN /\ MongoReturn(<<"failed to decode document from", colls[ci].Name>>)
              /\ UNCHANGED <<mops, mread>>
         ELSE LET r == insertBatch(colls[ci].Name, batch, failed) IN
              /\ mops' = mops \o r.ops
              /\ mread' = mread + Cardinality(batch)
              /\ IF BatchErrorReturned(r.err)
                 THEN MongoReturn(<<"failed to insert batch into", colls[ci].Name>> \o r.err)
                 ELSE /\ pc' = "mBatch"
                      /\ UNCHANGED <<err, sourceConn, targetConn>>
    /\ UNCHANGED <<sourceType, targetType, options, engine, log, schemaPhase,
                   dataPhase, tables, schemaVars, dataVars, colls, ci,
                   dropResult, ctxDone, appVars, histVars, profVars, liveVars>>

\* The cursor runs out with fewer than batchSize documents appended:
\* cursor.Err(), the final insertBatch, and cloneCollection returns.
MongoFinalBatch ==
    /\ pc = "mBatch"
    /\ Unread < MongoBatchSize(options.BatchSize)
    /\ LET batch == (mread + 1)..colls[ci].Docs IN
       \E outcome \in {"ok", "decode", "cursor"}, failed \in SUBSET batch :
         IF outcome = "decode" /\ batch # {}
         THEN /\ MongoReturn(<<"failed to decode document from", colls[ci].Name>>)
              /\ UNCHANGED <<mops, mread>>
         ELSE IF outcome = "cursor"
         THEN /\ MongoReturn(<<"error reading documents from", colls[ci].Name>>)
              /\ UNCHANGED <<mops, mread>>
         ELSE LET r == insertBatch(colls[ci].Name, batch, failed) IN
              /\ mops' = mops \o r.ops
              /\ mread' = colls[ci].Docs
              /\ IF r.err # Nil
                 THEN MongoReturn(<<"failed to insert final batch into", colls[ci].Name>> \o r.err)
                 ELSE /\ pc' = "mRange"
                      /\ UNCHANGED <<err, sourceConn, targetConn>>
    /\ UNCHANGED <<sourceType, targetType, options, engine, log, schemaPhase,
                   dataPhase, tables, schemaVars, dataVars, colls, ci,
                   dropResult, ctxDone, appVars, histVars, profVars, liveVars>>

\* The steps of cloneCollection.
CloneCollectionNext ==
    MongoDrop \/ MongoCloneIndexes \/ MongoFind \/ MongoBatch \/ MongoFinalBatch

\* Largest number of indexes, besides the identity index, of a collection
\* whose indexes are cloned on their own.
MaxIndexes == 2

\* Key specifications of an index: ascending and descending on one field.
IndexKeys == { <<"f", 1>>, <<"f", -1>> }

\* Expiry settings of an index: none, 0 seconds, 1 second.
IndexExpiries == { <<FALSE, 0>>, <<TRUE, 0>>, <<TRUE, 1>> }

\* The index documents the i-th index of a collection can be.
IndexDocs(i) ==
    { IndexDoc(IndexName(i), k, u, s, x[1], x[2]) :
        k \in IndexKeys, u \in BOOLEAN, s \in BOOLEAN, x \in IndexExpiries }

\* The lists of n index documents, the i-th any of IndexDocs(i).
RECURSIVE IndexListsOf(_)
IndexListsOf(n) ==
    IF n = 0 THEN { << >> }
    ELSE { Append(l, d) : l \in IndexListsOf(n - 1), d \in IndexDocs(n) }

\* Every index list of a collection: the identity index followed by up to
\* max others, with any key, uniqueness, sparseness and expiry.
IndexLists(max) ==
    UNION { { << IdentityDoc >> \o l : l \in IndexListsOf(n) } : n \in 0..max }

\* cloneCollection right after the drop, on a collection with any index
\* list, in a run that copies indexes.
InitIndexes ==
    /\ sourceType = "mongo" /\ targetType = "mongo"
    /\ options \in { o \in OptionsSet : o.ParallelWorkers = 1 /\ o.BatchSize = 1
                                        /\ ~o.DataOnly }
    /\ pc = "mIndexes"
    /\ engine = "mongo"
    /\ tables = << >>
    /\ txType = BeginTxType
    /\ ctxDone = FALSE
    /\ err = Nil
    /\ sourceConn = "open" /\ targetConn = "open"
    /\ log = {}
    /\ schemaPhase = "no" /\ dataPhase = "no"
    /\ tx = "none" /\ stmts = << >> /\ commits = 0 /\ ctErr = Nil
    /\ dbFailed = FALSE /\ targetSchema = {}
    /\ jobs = 0 /\ next = 1 /\ wg = 0
    /\ gpc = [t \in TableNames |-> "idle"]
    /\ offset = [t \in TableNames |-> 0]
    /\ pages = [t \in TableNames |-> 0]
    /\ reported = [t \in TableNames |-> 0]
    /\ committed = [t \in TableNames |-> {}]
    /\ jobErr = [t \in TableNames |-> Nil]
    /\ \E idxs \in IndexLists(MaxIndexes) :
         colls = << [Name |-> 1, Docs |-> 0, Indexes |-> idxs] >>
    /\ ci = 1 /\ mread = 0
    /\ dropResult \in {"ok", "notfound"}
    /\ mops = << MongoOp("listCollections", 0, << >>), MongoOp("drop", 1, << >>) >>
    /\ request = << >> /\ appErr = Nil
    /\ extracted = << >>
    /\ plog = [t \in TableNames |-> << >>]
    /\ jobConn = [t \in TableNames |-> NoConn]
    /\ source = [t \in TableNames |-> << >>]
    /\ changes = << >>
    /\ ProfIdle

SpecIndexes == InitIndexes /\ [][MongoCloneIndexes]_vars

MongoNext ==
    \/ MongoConnectSource
    \/ MongoConnectTarget
    \/ MongoTransfer
    \/ MongoRange
    \/ CloneCollectionNext

(* --------- profiles.Manager (tmp/queue_test.go:16-190), LoadConfig ----- *)

\* Longest alias, in characters and words.
MaxAlias == 3

\* What a string is made of: single characters and words.  Everything but
\* the space, the dot and the path separator matches [a-zA-Z0-9-_] in full.
Letters == {"a", " ", "_", ".", "/", "YML"}

\* The word the default alias ends in: time.Now().Format("20060102_150405").
Timestamp == "20060102_150405"

\* All strings of at most n characters and words.
RECURSIVE StringsUpTo(_)
StringsUpTo(n) ==
    IF n = 0 THEN { << >> }
    ELSE LET shorter == StringsUpTo(n - 1) IN
         shorter \cup { Append(w, c) : w \in { x \in shorter : Len(x) = n - 1 },
                                       c \in Letters }

\* strings.ToLower.
ToLower(str) ==
    [i \in DOMAIN str |->
        CASE str[i] = "YML"        -> "yml"
          [] str[i] = "Mongo"      -> "mongo"
          [] str[i] = "PostgreSQL" -> "postgresql"
          [] OTHER                 -> str[i]]

\* strings.Trim(str, c): the leading and trailing runs of c are cut off.
RECURSIVE TrimLeft(_, _)
TrimLeft(str, c) ==
    IF str # << >> /\ Head(str) = c THEN TrimLeft(Tail(str), c) ELSE str

RECURSIVE TrimRight(_, _)
TrimRight(str, c) ==
    IF str # << >> /\ str[Len(str)] = c
    THEN TrimRight(SubSeq(str, 1, Len(str) - 1), c) ELSE str

Trim(str, c) == TrimRight(TrimLeft(str, c), c)

\* strings.TrimSpace.
TrimSpace(str) == Trim(str, " ")

\* strings.HasSuffix and strings.TrimSuffix.
HasSuffix(str, suffix) ==
    /\ Len(str) >= Len(suffix)
    /\ SubSeq(str, Len(str) - Len(suffix) + 1, Len(str)) = suffix

TrimSuffix(str, suffix) ==
    IF HasSuffix(str, suffix) THEN SubSeq(str, 1, Len(str) - Len(suffix)) ELSE str

\* filepath.Ext: the suffix from the last dot of the last path element on.
RECURSIVE ExtFrom(_, _)
ExtFrom(str, i) ==
    IF i = 0 \/ str[i] = "/" THEN << >>
    ELSE IF str[i] = "." THEN SubSeq(str, i, Len(str))
    ELSE ExtFrom(str, i - 1)

Ext(str) == ExtFrom(str, Len(str))

DotYaml == <<".", "yaml">>
DotYml == <<".", "yml">>

\* HasSuffix(ToLower(name), ".yaml") || HasSuffix(ToLower(name), ".yml").
HasYAMLSuffix(name) ==
    HasSuffix(ToLower(name), DotYaml) \/ HasSuffix(ToLower(name), DotYml)

\* sanitizeName: every character outside [a-zA-Z0-9-_] becomes "_", the
\* underscores at both ends are cut off, and an empty result is "profile".
sanitizeName(input) ==
    LET cleaned == Trim([i \in DOMAIN input |->
                           IF input[i] \in {" ", ".", "/"} THEN "_" ELSE input[i]],
                        "_")
    IN  IF cleaned = << >> THEN <<"profile">> ELSE cleaned

\* Mutant: the name is used as it is.
ensureYAMLExtNever(name) == name

\* ensureYAMLExt: ".yaml" is appended unless the name has a YAML extension.
ensureYAMLExt(name) ==
    LET ext == ToLower(Ext(name)) IN
    IF ext = DotYaml \/ ext = DotYml THEN name ELSE name \o DotYaml

\* filepath.Join(m.dir, name) for a name without dots and separators.
Join(name) == <<"dir", "/">> \o name

\* yaml.Marshal of a string: a scalar, written in quotes when the plain
\* text would be empty, would not resolve to a string, or begins or ends
\* with a space.
YamlScalar(str) ==
    [text   |-> str,
     quoted |-> \/ str = << >>
                \/ str \in { <<"null">>, <<"true">> }
                \/ Head(str) = " " \/ str[Len(str)] = " "]

\* yaml.Unmarshal of a scalar into a string field: a plain null leaves the
\* zero value.
YamlString(scalar) ==
    IF ~scalar.quoted /\ scalar.text = <<"null">> THEN << >> ELSE scalar.text

\* yaml.Marshal(cfg) and yaml.Unmarshal(data, &config).
Marshal(cfg) == [type |-> YamlScalar(cfg.Type), host |-> YamlScalar(cfg.Host)]
Unmarshal(data) == Config(YamlString(data.type), YamlString(data.host))

\* Mutant: the type is returned as the file has it.
normalizeDatabaseTypeNever(dbType) == dbType

\* normalizeDatabaseType: trimmed and lower-cased; empty is "postgres",
\* "postgresql" is "postgres", "mongodb" is "mongo".
normalizeDatabaseType(dbType) ==
    LET t == ToLower(TrimSpace(dbType)) IN
    CASE t = << >>                               -> <<"postgres">>
      [] t \in { <<"postgres">>, <<"postgresql">> } -> <<"postgres">>
      [] t \in { <<"mongo">>, <<"mongodb">> }       -> <<"mongo">>
      [] OTHER                                   -> t

\* config.LoadConfig: ReadFile (which fails when there is no such file, or
\* when the file cannot be read), Unmarshal, the type normalized.
LoadConfig(path, readable) ==
    IF path \notin DOMAIN profDir
    THEN [cfg |-> Config(<< >>, << >>),
          err |-> <<"failed to read config file", "no such file or directory">>]
    ELSE IF ~readable
    THEN [cfg |-> Config(<< >>, << >>),
          err |-> <<"failed to read config file", "input/output error">>]
    ELSE LET config == Unmarshal(profDir[path]) IN
         [cfg |-> Config(normalizeDatabaseType(config.Type), config.Host),
          err |-> Nil]

\* Manager.Save: the file name is made from the alias (or from the type
\* and the time when the alias is blank), the config is written to it, and
\* the profile is returned.  outcome names the call that fails.
Save ==
    /\ profPc = "Save"
    /\ \E outcome \in {"ok", "mkdir", "write"} :
         LET cfg   == profArgs.cfg
             alias == TrimSpace(profArgs.alias)
             named == IF alias = << >> THEN cfg.Type \o <<"-", Timestamp>> ELSE alias
             clean == sanitizeName(named)
             base  == IF HasYAMLSuffix(clean) THEN clean ELSE clean \o DotYaml
             path  == Join(base)
         IN  IF outcome = "ok"
             THEN /\ profDir' = [f \in DOMAIN profDir \cup {path} |->
                                   IF f = path THEN Marshal(cfg) ELSE profDir[f]]
                  /\ profWrites' = Append(profWrites, path)
                  /\ profile' = [Name |-> TrimSuffix(base, Ext(base)),
                                 Path |-> path, Type |-> cfg.Type, err |-> Nil]
             ELSE /\ profile' = [NoProfile EXCEPT !.err = <<outcome>>]
                  /\ profWrites' = IF outcome = "write"
                                   THEN Append(profWrites, path) ELSE profWrites
                  /\ profDir' = profDir
    /\ profPc' = "Load"
    /\ UNCHANGED <<svcVars, schemaVars, dataVars, mongoVars, ctxDone, appVars,
                   histVars, profArgs, loaded, liveVars>>

\* Manager.Load of the name Save returned.
Load ==
    /\ profPc = "Load"
    /\ profile.err = Nil
    /\ \E readable \in BOOLEAN :
         LET alias == profile.Name IN
         IF TrimSpace(alias) = << >>
         THEN loaded' = [NoConfig EXCEPT !.err = <<"profile alias cannot be empty">>]
         ELSE LET path == IF \E i \in DOMAIN alias : alias[i] = "/"
                          THEN alias ELSE Join(ensureYAMLExt(alias))
              IN  loaded' = LoadConfig(path, readable)
    /\ profPc' = "done"
    /\ UNCHANGED <<svcVars, schemaVars, dataVars, mongoVars, ctxDone, appVars,
                   histVars, profArgs, profDir, profWrites, profile, liveVars>>

\* Database types a saved config can hold.
ConfigTypes ==
    { <<"postgres">>, <<"mongo">>, <<"mysql">>, << >>, <<"postgresql">>,
      <<"mongodb">>, <<"PostgreSQL">>, <<" ", "Mongo">> }

\* Hosts a saved config can hold.
ConfigHosts == { <<"db", ".", "internal">>, <<"null">> }

\* A manager on an empty directory or on one that holds the profile "a";
\* Save is called with any alias and config, then Load with the name Save
\* returned.  No transfer runs.
InitProfiles ==
    /\ sourceType = "postgres" /\ targetType = "postgres"
    /\ options \in { o \in OptionsSet : ~o.SchemaOnly /\ ~o.DataOnly
                                        /\ o.ParallelWorkers = 1 /\ o.BatchSize = 1 }
    /\ pc = "none"
    /\ engine = "nil"
    /\ tables = << >>
    /\ txType = BeginTxType
    /\ ctxDone = FALSE
    /\ request = << >>
    /\ Idle
    /\ profPc = "Save"
    /\ profArgs \in [alias : StringsUpTo(MaxAlias),
                     cfg : { Config(t, h) : t \in ConfigTypes, h \in ConfigHosts }]
    /\ \E old \in { << >>, [f \in { Join(<<"a">> \o DotYaml) } |->
                             Marshal(Config(<<"mongo">>, <<"old">>))] } :
         profDir = old
    /\ profWrites = << >>
    /\ profile = NoProfile
    /\ loaded = NoConfig

ProfilesNext == Save \/ Load

SpecProfiles == InitProfiles /\ [][ProfilesNext]_vars

(* --------------------------- specification ---------------------------- *)

Next ==
    \/ NewService
    \/ ConnectSource
    \/ ConnectTarget
    \/ TransferSchema
    \/ CreateTablesNext
    \/ TransferSchemaReturn
    \/ TransferData
    \/ Spawn
    \/ \E t \in TableNames : SubmitJob(t)
    \/ \E t \in TableNames : ExecutePage(t)
    \/ \E t \in TableNames : ExecuteReturn(t)
    \/ Wait
    \/ Finish
    \/ MongoNext

Spec == Init /\ [][Next]_vars

(* ------------------ app.Service.Transfer (package app) ---------------- *)

\* Mutant: the flags are handed on as requested.
NormalizeNever(schemaOnly, dataOnly) == <<schemaOnly, dataOnly>>

\* Transfer: `if schemaOnly && dataOnly { schemaOnly = false; dataOnly = false }`.
Normalize(schemaOnly, dataOnly) ==
    IF schemaOnly /\ dataOnly THEN <<FALSE, FALSE>> ELSE <<schemaOnly, dataOnly>>

\* Transfer up to the call of transfer.NewService: the flags are normalized
\* and the transfer.Options built from them.
AppTransfer ==
    /\ pc = "Transfer"
    /\ LET f == Normalize(request[1], request[2]) IN
       options' = [options EXCEPT !.SchemaOnly = f[1], !.DataOnly = f[2]]
    /\ pc' = "NewService"
    /\ UNCHANGED <<sourceType, targetType, engine, err, sourceConn, targetConn,
                   log, schemaPhase, dataPhase, tables, schemaVars, dataVars,
                   mongoVars, ctxDone, appVars, histVars, profVars, liveVars>>

\* Transfer returns: an error of NewService or of Execute is wrapped.
AppReturn ==
    /\ pc = "returned"
    /\ request # << >>
    /\ appErr' = IF err = Nil THEN Nil
                 ELSE IF engine = "nil"
                 THEN Wrap("failed to initialize transfer service", err)
                 ELSE Wrap("transfer execution failed", err)
    /\ pc' = "appReturned"
    /\ UNCHANGED <<sourceType, targetType, options, engine, err, sourceConn,
                   targetConn, log, schemaPhase, dataPhase, tables, schemaVars,
                   dataVars, mongoVars, ctxDone, request, histVars, profVars, liveVars>>

\* A transfer as the command line and the user interfaces start it: any
\* combination of the two flags may be requested; one worker, pages of one
\* row or document.
InitApp ==
    /\ sourceType \in DatabaseTypes
    /\ targetType \in DatabaseTypes
    /\ options \in { o \in OptionsSet : ~o.SchemaOnly /\ ~o.DataOnly
                                        /\ o.ParallelWorkers = 1 /\ o.BatchSize = 1 }
    /\ request \in { <<s, d>> : s \in BOOLEAN, d \in BOOLEAN }
    /\ pc = "Transfer"
    /\ engine = "nil"
    /\ tables = << >>
    /\ txType = BeginTxType
    /\ ctxDone = FALSE
    /\ ProfIdle
    /\ Idle

AppNext == AppTransfer \/ Next \/ AppReturn

SpecApp == InitApp /\ [][AppNext]_vars


(* ------------------------------ claims -------------------------------- *)

\* Jobs whose Execute is in progress.
Executing == { t \in TableNames : gpc[t] = "exec" }

\* C1: at every moment of the data phase at most ParallelWorkers Batch Copy
\* Jobs have their Execute in progress.
C1_AtMostNExecuting == Cardinality(Executing) <= options.ParallelWorkers

\* C2: the data phase terminates: while transferData is running some step
\* is always possible, so a submitter that found the intake full is admitted
\* later and transferData returns.
C2_DataPhaseTerminates == (dataPhase = "running") => ENABLED Next

\* C3: NewService with differing source and target types returns no
\* service and the error naming both types, and no connection is opened.
C3_CrossEngineRejected ==
    (sourceType # targetType /\ pc # "NewService") =>
        /\ pc = "returned"
        /\ engine = "nil"
        /\ err = <<"cross-engine transfers are not supported between",
                   sourceType, targetType>>
        /\ sourceConn = "nil" /\ targetConn = "nil"

C3_Witness ==
    /\ sourceType = "postgres" /\ targetType = "mongo"
    /\ pc = "returned" /\ engine = "nil" /\ err # Nil

\* ceil(r / b) for b > 0.
CeilDiv(r, b) == (r + b - 1) \div b

\* C4: a job no page of which failed has executed ceil(R/B) pages and
\* reported R rows in total to the progress sink, for every table of the
\* data phase (a table with R = 0 gets no job: 0 pages, 0 rows reported).
C4_PagesAndProgress ==
    /\ \A t \in TableNames :
         (gpc[t] = "done" /\ jobErr[t] = Nil) =>
             /\ pages[t] = CeilDiv(tables[t].RowCount, options.BatchSize)
             /\ reported[t] = tables[t].RowCount
    /\ (dataPhase = "ok") =>
         \A i \in DOMAIN tables :
             (jobErr[i] = Nil) =>
                 /\ pages[i] = CeilDiv(tables[i].RowCount, options.BatchSize)
                 /\ reported[i] = tables[i].RowCount

\* Three rows in pages of two: the second page is cut down to one row.
C4_Witness ==
    \E t \in TableNames :
        /\ gpc[t] = "done" /\ jobErr[t] = Nil
        /\ tables[t].RowCount = 3 /\ options.BatchSize = 2
        /\ pages[t] = 2 /\ reported[t] = 3

C6_FailureIsolated ==
    /\ (dataPhase = "ok") =>
         \A i \in DOMAIN tables :
             (jobErr[i] = Nil) => committed[i] = 1..tables[i].RowCount
    /\ (pc = "returned" /\ \E t \in TableNames : gpc[t] # "idle") =>
         /\ dataPhase = "ok"
         /\ err = Nil
    /\ \A t \in TableNames :
         (jobErr[t] # Nil) =>
             \E e \in log : e[1] = "error" /\ e[3] = tables[t].Name
    /\ \A u \in TableNames :
         (gpc[u] = "exec") => ENABLED (ExecutePage(u) \/ ExecuteReturn(u))

C6_Witness ==
    /\ pc = "returned" /\ err = Nil
    /\ \E t, u \in TableNames :
         /\ t # u
         /\ jobErr[t] # Nil
         /\ jobErr[u] = Nil /\ gpc[u] = "done"
         /\ tables[u].RowCount >= 2
         /\ committed[u] = 1..tables[u].RowCount

\* C7: the schema phase runs only without data-only, the data phase only
\* without schema-only, and a successful run has run exactly those; a job
\* exists only once the data phase has started, which is after the schema
\* phase (when that runs) has committed; after a failed schema phase no job
\* is submitted, no row is copied and the caller gets the error.
C7_PhaseOrder ==
    /\ (schemaPhase # "no") => ~options.DataOnly
    /\ (dataPhase # "no") => ~options.SchemaOnly
    /\ (pc = "returned" /\ engine = "postgres" /\ err = Nil) =>
         /\ (schemaPhase = "ok") <=> ~options.DataOnly
         /\ (dataPhase = "ok") <=> ~options.SchemaOnly
    /\ (dataPhase # "no" /\ ~options.DataOnly) =>
         (schemaPhase = "ok" /\ tx = "committed")
    /\ (\E t \in TableNames : gpc[t] # "idle") => dataPhase = "running" \/ dataPhase = "ok"
    /\ (schemaPhase = "failed") =>
         /\ dataPhase = "no"
         /\ \A t \in TableNames : gpc[t] = "idle" /\ committed[t] = {}
         /\ pc = "returned" /\ err # Nil

C7_Witness ==
    /\ ~options.DataOnly /\ ~options.SchemaOnly
    /\ schemaPhase = "ok" /\ tx = "committed"
    /\ \E t \in TableNames : gpc[t] = "exec" /\ committed[t] # {}


\* Pass a statement kind belongs to.
Rank(kind) ==
    CASE kind = "CREATE TABLE" -> 1
      [] kind = "CREATE INDEX" -> 2
      [] kind = "ADD FOREIGN KEY" -> 3

\* The DDL a table list calls for: a table per entry, every index that is
\* not the primary key's, every foreign key.
ExpectedDDL(tbls) ==
    { <<"CREATE TABLE", tbls[i].Name>> : i \in DOMAIN tbls }
    \cup UNION { { <<"CREATE INDEX", tbls[i].Indexes[j].Name>> :
                   j \in { k \in DOMAIN tbls[i].Indexes : ~tbls[i].Indexes[k].IsPrimary } }
                 : i \in DOMAIN tbls }
    \cup UNION { { <<"ADD FOREIGN KEY", tbls[i].ForeignKeys[j].Name>> :
                   j \in DOMAIN tbls[i].ForeignKeys }
                 : i \in DOMAIN tbls }

IssuedDDL == { <<stmts[i].kind, stmts[i].name>> : i \in DOMAIN stmts }

\* C8: CreateTables issues its DDL inside one transaction in three passes
\* (every CREATE TABLE before every CREATE INDEX before every ADD FOREIGN
\* KEY), and when the target rejects nothing it has issued a statement for
\* every table, secondary index and foreign key of the list and committed
\* exactly once, after the last of them.
C8_ThreePassesOneCommit ==
    /\ \A i, j \in DOMAIN stmts : (i < j) => Rank(stmts[i].kind) <= Rank(stmts[j].kind)
    /\ (stmts # << >>) => tx # "none"
    /\ commits <= 1
    /\ (tx = "committed") => (commits = 1 /\ pc \notin {"pass1", "pass2", "pass3", "commit"})
    /\ (pc = "ctReturn" /\ ~dbFailed) =>
         /\ ctErr = Nil
         /\ tx = "committed" /\ commits = 1
         /\ IssuedDDL = ExpectedDDL(tables)
         /\ Len(stmts) = Cardinality(ExpectedDDL(tables))

\* Foreign-key statements the target rejected.
FailedForeignKeys ==
    { i \in DOMAIN stmts : stmts[i].kind = "ADD FOREIGN KEY" /\ ~stmts[i].ok }

FailedCreateTables ==
    { i \in DOMAIN stmts : stmts[i].kind = "CREATE TABLE" /\ ~stmts[i].ok }

\* C10: when createTable failed for a table (its statement was rejected, or
\* the handle could not take the statement), CreateTables has returned an
\* error naming that table, the failed attempt is the last thing pass 1 did
\* (no later CREATE TABLE, no index or foreign-key statement), nothing was
\* committed and the rollback left none of the call's DDL in the target.
C10_CreateTableFailureAborts ==
    /\ \A i \in FailedCreateTables :
         /\ i = Len(stmts)
         /\ \A j \in 1..i : stmts[j].kind = "CREATE TABLE"
         /\ pc = "ctReturn"
         /\ Len(ctErr) >= 2
         /\ ctErr[1] = "failed to create table" /\ ctErr[2] = stmts[i].table
         /\ tx = "rolledback" /\ commits = 0 /\ targetSchema = {}
    /\ (txType = BeginTxType /\ tables # << >> /\ tx # "none"
          /\ pc \notin {"CreateTables", "pass1"}) =>
         /\ stmts = << >>
         /\ pc = "ctReturn"
         /\ ctErr = <<"failed to create table", tables[1].Name,
                      "transaction does not support Exec">>
         /\ tx = "rolledback" /\ commits = 0 /\ targetSchema = {}

C10_Witness ==
    /\ txType = BeginTxType
    /\ Len(tables) >= 2
    /\ pc = "ctReturn"
    /\ ctErr # Nil /\ ctErr[1] = "failed to create table" /\ ctErr[2] = tables[1].Name
    /\ tx = "rolledback" /\ stmts = << >>


\* No call into the target failed but CREATE INDEX statements.
OnlyIndexesRejected ==
    /\ tx # "none"
    /\ ctErr # <<"failed to commit transaction">>
    /\ \A i \in DOMAIN stmts : ~stmts[i].ok => stmts[i].kind = "CREATE INDEX"

\* C11: when the target rejects nothing but CREATE INDEX statements,
\* CreateTables returns success after one commit: every rejected index is
\* logged as a warning and is missing from the target, and every other
\* index, every table and every foreign key of the list was attempted and
\* persists.
C11_IndexFailureSkipped ==
    (pc = "ctReturn" /\ OnlyIndexesRejected) =>
        /\ ctErr = Nil
        /\ tx = "committed" /\ commits = 1
        /\ IssuedDDL = ExpectedDDL(tables)
        /\ \A i \in DOMAIN stmts :
             IF stmts[i].ok
             THEN <<stmts[i].kind, stmts[i].name>> \in targetSchema
             ELSE /\ <<stmts[i].kind, stmts[i].name>> \notin targetSchema
                  /\ <<"warn", "Failed to create index", stmts[i].name>> \in log

\* What the claim compares of a snapshot table: column names, types and
\* nullability in ordinal order, and the primary-key column set.
Snapshot(table) ==
    [Columns |-> [i \in DOMAIN table.Columns |->
                    [Name |-> table.Columns[i].Name,
                     DataType |-> table.Columns[i].DataType,
                     IsNullable |-> table.Columns[i].IsNullable]],
     PrimaryKeys |-> { table.PrimaryKeys[k] : k \in DOMAIN table.PrimaryKeys }]

\* C12: CreateTables applied to an empty target through a transaction no
\* call of which fails returns success, and the target then holds exactly
\* the tables of the list, each with the snapshot's column names, types and
\* nullability in ordinal order and the snapshot's primary-key column set.
C12_SchemaRoundTrip ==
    (pc = "ctReturn" /\ ~dbFailed) =>
        /\ ctErr = Nil
        /\ tx = "committed"
        /\ { o[2] : o \in { x \in targetSchema : x[1] = "CREATE TABLE" } }
             = { tables[i].Name : i \in DOMAIN tables }
        /\ \A i \in DOMAIN tables :
             \E j \in DOMAIN stmts :
                 /\ stmts[j].kind = "CREATE TABLE" /\ stmts[j].name = tables[i].Name
                 /\ TargetTable(stmts[j].sql) = Snapshot(tables[i])


\* Calls made on one collection, as positions of mops.
OpsOn(c) == { i \in DOMAIN mops : mops[i].op # "listCollections" /\ mops[i].coll = c }

\* Step of cloneCollection a call belongs to.
StepOf(op) ==
    CASE op = "drop" -> 1
      [] op \in {"listIndexes", "createIndexes"} -> 2
      [] op \in {"find", "insertMany"} -> 3
      [] OTHER -> 0

\* Position of a collection in the list transfer ranges over.
PosOf(c) == CHOOSE k \in DOMAIN colls : colls[k].Name = c

\* C13: the document-store engine works through the collections in list
\* order, one at a time, and on each in the order drop, indexes (unless
\* data-only), documents (unless schema-only): a call on a later collection
\* follows every call on an earlier one, the drop of a collection is its
\* first call and the only drop, and index calls precede document calls.
C13_CollectionsInOrder ==
    /\ \A i, j \in DOMAIN mops :
         (i < j /\ mops[i].op # "listCollections") =>
             /\ mops[j].op # "listCollections"
             /\ PosOf(mops[i].coll) <= PosOf(mops[j].coll)
             /\ (mops[i].coll = mops[j].coll) =>
                    /\ StepOf(mops[i].op) <= StepOf(mops[j].op)
                    /\ mops[j].op # "drop"
    /\ \A k \in DOMAIN colls :
         LET c == colls[k].Name IN
         /\ (OpsOn(c) # {}) => \E i \in OpsOn(c) : mops[i].op = "drop"
         /\ options.DataOnly => \A i \in OpsOn(c) : StepOf(mops[i].op) # 2
         /\ options.SchemaOnly => \A i \in OpsOn(c) : StepOf(mops[i].op) # 3
         /\ (k < ci \/ (k = ci /\ pc = "mRange")) =>
              /\ ~options.DataOnly => \E i \in OpsOn(c) : mops[i].op = "listIndexes"
              /\ ~options.SchemaOnly => \E i \in OpsOn(c) : mops[i].op = "find"

\* Two collections cloned in full, the second after the first.
C13_Witness ==
    /\ engine = "mongo" /\ pc = "returned" /\ err = Nil
    /\ ~options.DataOnly /\ ~options.SchemaOnly
    /\ Len(colls) >= 2
    /\ \E i, j \in DOMAIN mops :
         /\ i < j
         /\ mops[i].op = "insertMany" /\ mops[i].coll = colls[1].Name
         /\ mops[j].op = "drop" /\ mops[j].coll = colls[2].Name
    /\ \E i \in DOMAIN mops : mops[i].op = "createIndexes" /\ mops[i].coll = colls[1].Name

\* Source index documents of a collection other than the identity index.
OtherIndexes(c) ==
    SelectSeq(colls[PosOf(c)].Indexes, LAMBDA d : d.Name # IdentityIndex)

\* C14: no index creation on the target names the identity index `_id_`:
\* a CreateMany call carries one model per other source index and none for
\* `_id_`, and a collection whose only index is `_id_` gets no call.
C14_IdentityNeverCreated ==
    \A i \in DOMAIN mops :
        (mops[i].op = "createIndexes") =>
            /\ \A k \in DOMAIN mops[i].arg : mops[i].arg[k].Name # IdentityIndex
            /\ Len(mops[i].arg) = Len(OtherIndexes(mops[i].coll))
            /\ Len(mops[i].arg) >= 1

\* Source indexes `_id_` and a unique index: one index is created, the
\* unique one.
C14_Witness ==
    /\ Len(colls[1].Indexes) = 2
    /\ colls[1].Indexes[2].Unique
    /\ \E i \in DOMAIN mops :
         /\ mops[i].op = "createIndexes"
         /\ Len(mops[i].arg) = 1
         /\ mops[i].arg[1].Name = colls[1].Indexes[2].Name
         /\ mops[i].arg[1].Unique

\* C15: every source index other than the identity index is created on the
\* target with the name, key specification, uniqueness, sparse flag and
\* expiry of the source index.
C15_IndexOptionsPreserved ==
    \A i \in DOMAIN mops :
        (mops[i].op = "createIndexes") => mops[i].arg = OtherIndexes(mops[i].coll)


BothFlagsWarning ==
    <<"warn", "Both schema-only and data-only flags are set to skip operations; nothing to do.">>

\* Errors of a document-store run that precede the choice of what to copy.
MongoSetupErrors ==
    { <<"source and target database names are required for MongoDB transfer">>,
      <<"failed to list collections">> }

\* C16: a document-store transfer with schema-only and data-only both set
\* makes no call on any collection (no drop, no index call, no find, no
\* insert), and once connected and past the listing of the collections it
\* returns success with a warning logged.
C16_BothFlagsNothingDone ==
    (engine = "mongo" /\ options.SchemaOnly /\ options.DataOnly) =>
        /\ \A i \in DOMAIN mops : mops[i].op = "listCollections"
        /\ ci = 0
        /\ (pc = "returned" /\ sourceConn # "nil" /\ targetConn # "nil"
              /\ err \notin MongoSetupErrors) =>
             /\ err = Nil
             /\ BothFlagsWarning \in log
             /\ Len(mops) = 1

C16_Witness ==
    /\ engine = "mongo" /\ options.SchemaOnly /\ options.DataOnly
    /\ pc = "returned" /\ err = Nil
    /\ Len(colls) >= 2 /\ colls[1].Docs >= 1
    /\ BothFlagsWarning \in log
    /\ mops = << MongoOp("listCollections", 0, << >>) >>

\* Documents of a collection that some InsertMany call attempted.
Attempted(c) ==
    UNION { mops[i].arg.docs : i \in { j \in OpsOn(c) : mops[j].op = "insertMany" } }

\* The page an InsertMany call (position i of mops) was made for: the
\* documents the cursor yielded since the previous call on the collection.
PageOf(i) ==
    LET c == mops[i].coll
        k == Cardinality(UNION { mops[j].arg.docs :
                                 j \in { n \in OpsOn(c) : n < i /\ mops[n].op = "insertMany" } })
        D == colls[PosOf(c)].Docs
        B == MongoBatchSize(options.BatchSize)
    IN  (k + 1)..(k + (IF D - k >= B THEN B ELSE D - k))

\* The run ended because a document could not be read from the source.
ReadFailed ==
    /\ err # Nil
    /\ err[1] \in {"failed to decode document from", "error reading documents from"}

\* C17: when an InsertMany call reports a failure for some document, the
\* other documents of its page were attempted all the same, and the pages
\* after it are read and inserted too: at the end of the run, unless
\* reading the source failed, every document of that collection was
\* attempted.
C17_PartialFailureContinues ==
    \A i \in DOMAIN mops :
        (mops[i].op = "insertMany" /\ mops[i].arg.inserted # mops[i].arg.docs) =>
            /\ mops[i].arg.docs = PageOf(i)
            /\ (pc = "returned" /\ ~ReadFailed) =>
                 Attempted(mops[i].coll) = 1..colls[PosOf(mops[i].coll)].Docs

\* Errors cloneCollection returns, by their first part.
CloneErrors ==
    { "failed to drop target collection", "failed to clone indexes for",
      "failed to query collection", "failed to decode document from",
      "failed to insert batch into", "error reading documents from",
      "failed to insert final batch into" }

\* C18: an error of cloneCollection ends the document-store run: it is the
\* error Execute returns, and no call was made on a collection after the
\* failed one; a drop that fails is such an error unless the failure is
\* namespace-not-found, after which the cloning of that collection goes on;
\* an insert that reported a failure is such an error.
C18_CloneFailureAborts ==
    /\ (engine = "mongo" /\ err # Nil /\ err[1] \in CloneErrors) =>
         /\ pc = "returned"
         /\ err[2] = colls[ci].Name
         /\ \A i \in DOMAIN mops :
              mops[i].op # "listCollections" => PosOf(mops[i].coll) <= ci
         /\ (err[1] = "failed to drop target collection") => dropResult = "error"
    /\ (dropResult = "error") =>
         (pc = "returned" /\ err # Nil /\ err[1] = "failed to drop target collection")
    /\ (dropResult = "notfound" /\ pc = "returned" /\ err # Nil) =>
         err[1] # "failed to drop target collection"
    /\ \A i \in DOMAIN mops :
         (mops[i].op = "insertMany" /\ mops[i].arg.inserted # mops[i].arg.docs) =>
             (pc = "returned" /\ err # Nil /\ err[2] = mops[i].coll)

\* The drop of the first of two collections reports namespace-not-found,
\* its cloning goes on and fails at an insert: the second is never touched.
C18_Witness ==
    /\ engine = "mongo" /\ pc = "returned"
    /\ Len(colls) >= 2 /\ ci = 1
    /\ dropResult = "notfound"
    /\ err # Nil /\ err[1] = "failed to insert batch into" /\ err[2] = colls[1].Name
    /\ \E i \in DOMAIN mops : mops[i].op = "createIndexes" /\ mops[i].coll = colls[1].Name
    /\ \A i \in DOMAIN mops : mops[i].op # "listCollections" => mops[i].coll = colls[1].Name


\* Something of a transfer's work was done: a schema extraction, a DDL
\* transaction, a listing, a call on a collection, a data phase or a job.
WorkBegun ==
    \/ schemaPhase # "no" \/ dataPhase # "no"
    \/ tables # << >> \/ tx # "none" \/ stmts # << >>
    \/ colls # << >> \/ mops # << >>
    \/ \E t \in TableNames : gpc[t] # "idle" \/ committed[t] # {}

\* Errors Execute returns when connect failed.
ConnectErrors == {"connection error", "failed to connect to MongoDB"}

\* C20: when the source or the target connection cannot be opened or
\* pinged, Execute of either engine returns an error and nothing of the
\* transfer's work was done; work is done only with both connections open.
C20_ConnectFailureNoWork ==
    /\ WorkBegun => (sourceConn # "nil" /\ targetConn # "nil")
    /\ (pc \notin {"NewService", "Execute", "connectTarget", "mConnectTarget"}
          /\ engine # "nil" /\ (sourceConn = "nil" \/ targetConn = "nil")) =>
         /\ pc = "returned"
         /\ err # Nil /\ err[1] \in ConnectErrors
         /\ ~WorkBegun

\* The document-store engine reaches its source, the ping of the target
\* fails: Execute has returned the error and nothing was listed or dropped.
C20_Witness ==
    /\ engine = "mongo" /\ pc = "returned"
    /\ sourceConn = "open" /\ targetConn = "nil"
    /\ err = <<"failed to connect to MongoDB", "failed to ping", "target", "MongoDB">>
    /\ ~WorkBegun


\* C19: once the cancellation signal has fired, a submission that has not
\* been admitted (it is being called, or it is blocked on the full intake)
\* never starts the job's Execute: it returns the cancellation error and
\* no page of the job is run.
C19_CancelledSubmitNeverExecutes ==
    [][\A t \in TableNames :
         (ctxDone /\ gpc[t] = "submit" /\ gpc'[t] # "submit") =>
             /\ gpc'[t] = "done"
             /\ jobErr'[t] = <<"context canceled">>
             /\ pages'[t] = 0]_vars


\* C21: a transfer requested with schema-only and data-only both set runs
\* as a full transfer: the Options the engine is built with have neither
\* flag set (and no request gives it both), a relational run starts with
\* the schema phase and goes on to the data phase when that succeeded, a
\* relational run that succeeded has completed both phases, and the
\* document-store engine never finds that there is nothing to do.
C21_BothFlagsFullTransfer ==
    /\ (pc # "Transfer") => ~(options.SchemaOnly /\ options.DataOnly)
    /\ (request = <<TRUE, TRUE>> /\ pc # "Transfer") =>
         /\ ~options.SchemaOnly /\ ~options.DataOnly
         /\ (engine = "postgres" /\ sourceConn # "nil" /\ targetConn # "nil") =>
              (schemaPhase # "no" \/ pc = "transferSchema")
         /\ (schemaPhase = "ok") => (dataPhase # "no" \/ pc = "transferData")
         /\ (engine = "postgres" /\ pc = "appReturned" /\ appErr = Nil) =>
              (schemaPhase = "ok" /\ dataPhase = "ok")
         /\ BothFlagsWarning \notin log

\* Both flags requested, relational: the schema phase committed and the
\* data phase copied rows.
C21_Witness ==
    /\ request = <<TRUE, TRUE>>
    /\ engine = "postgres" /\ pc = "appReturned" /\ appErr = Nil
    /\ schemaPhase = "ok" /\ dataPhase = "ok"
    /\ \E t \in TableNames : committed[t] # {}


\* Save and Load both returned without an error.
SavedAndLoaded == profPc = "done" /\ profile.err = Nil /\ loaded.err = Nil

\* Save wrote one file, the profile's, and the directory holds what it held
\* before and that file.
OneFileWritten ==
    /\ profWrites = << profile.Path >>
    /\ profile.Path \in DOMAIN profDir
    /\ \A f \in DOMAIN profDir :
         f = profile.Path \/ f = Join(<<"a">> \o DotYaml)
    /\ (Cardinality(DOMAIN profDir) = 2) => profile.Path # Join(<<"a">> \o DotYaml)

\* C22 as stated: for every config and alias, Save followed by Load of the
\* returned profile name finds the file and yields a config with the same
\* database type and host as the one saved, and the Save wrote exactly one
\* file.
C22_SaveLoadRoundTrip ==
    /\ (profPc = "done" /\ profile.err = Nil /\ loaded.err # Nil) =>
         loaded.err = <<"failed to read config file", "input/output error">>
    /\ SavedAndLoaded =>
         /\ loaded.cfg.Type = profArgs.cfg.Type
         /\ loaded.cfg.Host = profArgs.cfg.Host
    /\ (profPc # "Save" /\ profile.err = Nil) => OneFileWritten

\* A database type that normalizeDatabaseType leaves as it is.
NormalType(type) ==
    /\ type # << >>
    /\ TrimSpace(type) = type /\ ToLower(type) = type
    /\ type \notin { <<"postgresql">>, <<"mongodb">> }

\* C22, amended: Save followed by Load of the returned profile name yields
\* a config with the same host, and with the same database type when the
\* saved type is in normal form (not empty, trimmed, lower case, neither
\* "postgresql" nor "mongodb"); any other type is loaded in its normal
\* form.  The Save wrote exactly one file, and the Load finds it.
C22_SaveLoadNormalized ==
    /\ (profPc = "done" /\ profile.err = Nil) =>
         loaded.err \in { Nil, <<"failed to read config file", "input/output error">> }
    /\ SavedAndLoaded =>
         /\ loaded.cfg.Host = profArgs.cfg.Host
         /\ NormalType(profArgs.cfg.Type) => loaded.cfg.Type = profArgs.cfg.Type
         /\ NormalType(loaded.cfg.Type)
         /\ (profArgs.cfg.Type \in { << >>, <<"postgresql">>, <<"PostgreSQL">> }) =>
              loaded.cfg.Type = <<"postgres">>
         /\ (profArgs.cfg.Type \in { <<"mongodb">>, <<" ", "Mongo">> }) =>
              loaded.cfg.Type = <<"mongo">>
    /\ (profPc # "Save" /\ profile.err = Nil) => OneFileWritten

\* The alias " a/." and a config of type "postgresql" saved into an empty
\* directory: one file, "a.yaml", and the config is loaded as "postgres".
C22_Witness ==
    /\ SavedAndLoaded
    /\ profArgs.alias = <<" ", "a", "/">>
    /\ profArgs.cfg = Config(<<"postgresql">>, <<"db", ".", "internal">>)
    /\ DOMAIN profDir = { Join(<<"a">> \o DotYaml) }
    /\ profile.Name = <<"a">>
    /\ loaded.cfg = Config(<<"postgres">>, <<"db", ".", "internal">>)


\* The source queries of a job, in the order they were issued.
QueriesOf(t) == SelectSeq(plog[t], LAMBDA c : c.op = "query")

\* C23: within one job the pages are queried in increasing OFFSET order,
\* page k at offset (k-1)*B with the rows that are left up to B, so that
\* each page starts where the previous one ended and a job that ran to the
\* end has covered rows 0..R-1; the query of a page other than the first
\* directly follows the successful commit of the page before it.
C23_PagesInOffsetOrder ==
    \A t \in TableNames :
        (plog[t] # << >>) =>
            LET B == options.BatchSize
                R == tables[t].RowCount
                q == QueriesOf(t)
            IN  /\ plog[t][1].op = "query"
                /\ \A k \in DOMAIN q :
                     /\ q[k].offset = (k - 1) * B
                     /\ q[k].limit = (IF R - (k - 1) * B < B THEN R - (k - 1) * B ELSE B)
                     /\ q[k].limit >= 1
                     /\ k > 1 => q[k].offset = q[k - 1].offset + q[k - 1].limit
                /\ \A i \in DOMAIN plog[t] :
                     (i > 1 /\ plog[t][i].op = "query") =>
                         /\ plog[t][i - 1].op = "commit" /\ plog[t][i - 1].ok
                         /\ plog[t][i - 1].offset + plog[t][i - 1].limit = plog[t][i].offset
                /\ (gpc[t] = "done" /\ jobErr[t] = Nil) =>
                     /\ q[Len(q)].offset + q[Len(q)].limit = R
                     /\ plog[t][Len(plog[t])].op = "commit"

\* Three rows in pages of two: offsets 0 and 2, the second query right
\* after the first commit.
C23_Witness ==
    \E t \in TableNames :
        /\ gpc[t] = "done" /\ jobErr[t] = Nil
        /\ options.BatchSize = 2 /\ tables[t].RowCount = 3
        /\ Len(QueriesOf(t)) = 2
        /\ QueriesOf(t)[2].offset = 2 /\ QueriesOf(t)[2].limit = 1
        /\ plog[t][4].op = "commit" /\ plog[t][5].op = "query"


\* C24: in a relational run the source schema is extracted at most once,
\* and the table list the jobs are planned from is the one the Schema
\* Creator consumed.
C24_SingleExtraction ==
    /\ Len(extracted) <= 1
    /\ (schemaPhase # "no" /\ dataPhase # "no") => tables = extracted[1]


\* C25: two jobs whose Execute is in progress at the same time never hold
\* the same source connection handle or the same target connection handle.
C25_ConnectionsExclusive ==
    \A t, u \in Executing :
        (t # u) =>
            /\ jobConn[t].SourceConn # jobConn[u].SourceConn
            /\ jobConn[t].TargetConn # jobConn[u].TargetConn


\* Changes made to the source table of a job, as positions of changes.
ChangesOf(t) == { i \in DOMAIN changes : changes[i].table = t }

\* Number of pages of a job whose source query returned row r.
TimesRead(t, r) ==
    Cardinality({ i \in DOMAIN plog[t] : plog[t][i].op = "query" /\ r \in plog[t][i].rows })

\* Rows that were in the source table when its rows were counted and that
\* no client deleted.
Staying(t) ==
    { r \in 1..tables[t].RowCount :
        \A i \in ChangesOf(t) : ~(changes[i].kind = "delete" /\ changes[i].row = r) }

\* The job ran all its pages and none failed.
RanToEnd(t) == gpc[t] = "done" /\ jobErr[t] = Nil /\ pages[t] >= 1

\* C26: a job over a source table that does not change reads every row in
\* exactly one page; a row is read in two pages only after an insert into
\* the table, and a row that stayed in the table is missed by a job that
\* ran to its end only after a change of the table.
C26_StaticSourceExactlyOnce ==
    \A t \in TableNames :
        /\ (ChangesOf(t) = {}) =>
             /\ \A r \in 1..MaxRows + MaxChanges : TimesRead(t, r) <= 1
             /\ RanToEnd(t) =>
                  /\ \A r \in 1..tables[t].RowCount : TimesRead(t, r) = 1
                  /\ committed[t] = 1..tables[t].RowCount
        /\ \A r \in 1..MaxRows + MaxChanges :
             (TimesRead(t, r) > 1) =>
                 \E i \in ChangesOf(t) : changes[i].kind = "insert"
        /\ RanToEnd(t) =>
             \A r \in Staying(t) :
                 (TimesRead(t, r) = 0) => ChangesOf(t) # {}
        /\ (RanToEnd(t) /\ Len(changes) = 1 /\ changes[1].table = t
                /\ changes[1].pos <= changes[1].cursor) =>
             IF changes[1].kind = "delete"
             THEN \E r \in Staying(t) :
                      /\ TimesRead(t, r) = 0 /\ r \notin committed[t]
                      /\ \E p \in DOMAIN source[t] : source[t][p] = r
             ELSE \E r \in Staying(t) : TimesRead(t, r) = 2

\* A job of three pages of one row: after page 1 the row it read is
\* deleted, so page 2 skips the second row; then a row is inserted before
\* the cursor, so page 3 reads the row of page 2 again.  The job ends
\* without error, the second row is still in the source and is not in the
\* target.
C26_Witness ==
    \E t \in TableNames :
        /\ RanToEnd(t)
        /\ Len(changes) = 2
        /\ changes[1].kind = "delete" /\ changes[1].table = t
        /\ changes[1].pos <= changes[1].cursor
        /\ changes[2].kind = "insert" /\ changes[2].table = t
        /\ changes[2].pos <= changes[2].cursor
        /\ \E r \in Staying(t) :
             /\ TimesRead(t, r) = 0 /\ r \notin committed[t]
             /\ \E p \in DOMAIN source[t] : source[t][p] = r
        /\ \E r \in Staying(t) : TimesRead(t, r) = 2


\* The statements of one kind issued so far, as positions of stmts.
StmtsOfKind(kind) == { i \in DOMAIN stmts : stmts[i].kind = kind }

\* The indexes of the table list whose primary-key flag is as given, each
\* as <<table name, index name>>.
IndexesWhere(primary) ==
    UNION { { <<tables[t].Name, tables[t].Indexes[j].Name>> :
                j \in { k \in DOMAIN tables[t].Indexes :
                          tables[t].Indexes[k].IsPrimary = primary } }
            : t \in DOMAIN tables }

InsertsOn(c) == { i \in OpsOn(c) : mops[i].op = "insertMany" }

\* The k-th collection of the run was copied and nothing failed in it.
Copied(k) ==
    /\ engine = "mongo" /\ ~options.SchemaOnly
    /\ k \in DOMAIN colls
    /\ \/ k < ci
       \/ k = ci /\ pc = "mRange"
       \/ k = ci /\ pc = "returned" /\ err = Nil

\* C28: a collection of D documents copied without failure with batch
\* size B > 0 received exactly ceil(D/B) InsertMany calls; the j-th call
\* carries the documents (j-1)*B+1 .. min(j*B, D) of the cursor, so each
\* call has 1 to B documents, only the last can have fewer than B, and
\* every document is inserted exactly once, in cursor order.
C28_BatchesPartitionCursor ==
    \A k \in DOMAIN colls :
        (Copied(k) /\ options.BatchSize > 0) =>
            LET c == colls[k].Name
                D == colls[k].Docs
                B == options.BatchSize
            IN  /\ Cardinality(InsertsOn(c)) = CeilDiv(D, B)
                /\ \A i \in InsertsOn(c) :
                     LET j  == Cardinality({ n \in InsertsOn(c) : n <= i })
                         hi == IF j * B <= D THEN j * B ELSE D
                     IN  /\ mops[i].arg.docs = ((j - 1) * B + 1)..hi
                         /\ mops[i].arg.inserted = mops[i].arg.docs
                         /\ Cardinality(mops[i].arg.docs) \in 1..B
                         /\ (Cardinality(mops[i].arg.docs) < B) =>
                                \A n \in InsertsOn(c) : n <= i
                /\ \A d \in 1..D :
                     Cardinality({ i \in InsertsOn(c) : d \in mops[i].arg.inserted }) = 1

\* A collection of three documents was copied with batch size 2: a full
\* batch and a final batch of one document.
C28_Witness ==
    \E k \in DOMAIN colls :
        /\ Copied(k)
        /\ options.BatchSize = 2
        /\ colls[k].Docs = 3
        /\ Cardinality(InsertsOn(colls[k].Name)) = 2


\* C29: when Execute has returned, no connection it opened is still open,
\* whichever path it returned on (relational and document-store engine).
C29_ConnectionsClosedAtReturn ==
    (pc = "returned") => (sourceConn # "open" /\ targetConn # "open")

\* The same for the runs in which both connections were opened: there the
\* deferred cleanup is registered and the property holds.
ClosedOnceBothOpened ==
    (pc = "returned" /\ sourceConn # "nil" /\ targetConn # "nil") =>
        (sourceConn = "closed" /\ targetConn = "closed")


\* An iteration of a job's page loop after which the loop goes on.
Iterates(t) == pages'[t] = pages[t] + 1 /\ gpc'[t] = "exec"

\* C30: every iteration of Execute's page loop strictly increases the
\* offset, for every row count and every configured batch size, so the
\* loop ends after at most R iterations.
C30_OffsetStrictlyIncreases ==
    [][\A t \in TableNames :
          Iterates(t) => /\ offset'[t] > offset[t]
                         /\ pages'[t] <= tables[t].RowCount]_vars

\* The same for a batch size of at least 1.
OffsetIncreasesForPositiveBatch ==
    [][\A t \in TableNames :
          (Iterates(t) /\ options.BatchSize >= 1) =>
              /\ offset'[t] > offset[t]
              /\ pages'[t] <= tables[t].RowCount]_vars

\* A job with a batch size below 1 ends only with an error or on an empty
\* table.
NonPositiveBatchNeverCopies ==
    \A t \in TableNames :
        (options.BatchSize < 1 /\ gpc[t] = "done" /\ tables[t].RowCount > 0) =>
            jobErr[t] # Nil

=============================================================================
